---- MODULE Spec2Model ----
(***************************************************************************)
(* Model of the quiz session engine of autocoach:                          *)
(*   backend/app/services/session_manager.py  (create_session,             *)
(*   get_session, get_current_question, submit_answer)                     *)
(*   backend/app/services/answer_evaluator.py (evaluate_answer)            *)
(*   backend/app/api/routes/sessions.py       (HTTP status mapping)        *)
(*                                                                         *)
(* The record store is reached through one HTTP request per query, so      *)
(* every .execute() of the source is one atomic step and the local code    *)
(* that follows it up to the next .execute() belongs to the same step.     *)
(* Requests are served by the slots of Calls; the slots run concurrently   *)
(* under Spec and one at a time under SeqSpec.                             *)
(*                                                                         *)
(* Text is a sequence of one-character strings.  An optional column        *)
(* (Python None) is <<>> when unset and <<v>> when set to v.               *)
(***************************************************************************)
EXTENDS Integers, Sequences, FiniteSets, TLC

\* ------------------------------------------------------------------ bounds
MaxSessions == 2          \* sessions ever created
MaxQuestions == 3         \* questions the generator returns for one session
MaxQuestionRows == 2      \* question rows ever inserted, requests overlapping
SeqMaxQuestionRows == 3   \* question rows ever inserted, one request at a time
MaxClock == 6             \* readings of the clock by submit_answer

\* Two requests are served at the same time.
Calls == {1, 2}
Users == {"u1", "u2"}
\* The user who creates sessions; the other one only ever names them.
Owners == {"u1"}

None == <<>>
Some(v) == <<v>>
IsSet(o) == o # <<>>
Val(o) == o[1]

\* ------------------------------------------------------------ text helpers
Whitespace == {" ", "\t", "\n", "\r"}

LowerLetters == <<"a","b","c","d","e","f","g","h","i","j","k","l","m",
                  "n","o","p","q","r","s","t","u","v","w","x","y","z">>
UpperLetters == <<"A","B","C","D","E","F","G","H","I","J","K","L","M",
                  "N","O","P","Q","R","S","T","U","V","W","X","Y","Z">>

LowerChar(ch) ==
    IF \E i \in 1..26 : UpperLetters[i] = ch
    THEN LowerLetters[CHOOSE i \in 1..26 : UpperLetters[i] = ch]
    ELSE ch

UpperChar(ch) ==
    IF \E i \in 1..26 : LowerLetters[i] = ch
    THEN UpperLetters[CHOOSE i \in 1..26 : LowerLetters[i] = ch]
    ELSE ch

Lower(s) == [i \in 1..Len(s) |-> LowerChar(s[i])]
Upper(s) == [i \in 1..Len(s) |-> UpperChar(s[i])]

RECURSIVE LStrip(_)
LStrip(s) == IF s # <<>> /\ Head(s) \in Whitespace THEN LStrip(Tail(s)) ELSE s

RECURSIVE RStrip(_)
RStrip(s) ==
    IF s # <<>> /\ s[Len(s)] \in Whitespace
    THEN RStrip(SubSeq(s, 1, Len(s) - 1))
    ELSE s

Strip(s) == RStrip(LStrip(s))

\* -------------------------------------------------------- answer_evaluator
normalize_answer(answer) == Lower(Strip(answer))

\* normalize_mcq_answer keeping the case of the answer.
normalize_mcq_answer_CaseKept(answer) ==
    LET normalized == Strip(answer)
    IN  IF Len(normalized) > 1 /\ normalized[2] \in {")", ".", " "}
        THEN <<normalized[1]>>
        ELSE normalized

normalize_mcq_answer(answer) ==
    LET normalized == Upper(Strip(answer))
    IN  IF Len(normalized) > 1 /\ normalized[2] \in {")", ".", " "}
        THEN <<normalized[1]>>
        ELSE normalized

evaluate_mcq(user_answer, correct_answer) ==
    normalize_mcq_answer(user_answer) = normalize_mcq_answer(correct_answer)

\* true_variations with "yep" taken for "yes".
true_variations_WithYep ==
    { <<"t","r","u","e">>, <<"t">>, <<"y","e","s">>, <<"1">>,
      <<"c","o","r","r","e","c","t">>, <<"r","i","g","h","t">>,
      <<"y","e","p">> }

true_variations ==
    { <<"t","r","u","e">>, <<"t">>, <<"y","e","s">>, <<"1">>,
      <<"c","o","r","r","e","c","t">>, <<"r","i","g","h","t">> }

false_variations ==
    { <<"f","a","l","s","e">>, <<"f">>, <<"n","o">>, <<"0">>,
      <<"i","n","c","o","r","r","e","c","t">>, <<"w","r","o","n","g">>,
      <<"n","o","t"," ","t","r","u","e">> }

evaluate_true_false(user_answer, correct_answer) ==
    LET user_normalized == normalize_answer(user_answer)
        correct_bool == normalize_answer(correct_answer) \in true_variations
    IN  IF user_normalized \in true_variations THEN correct_bool = TRUE
        ELSE IF user_normalized \in false_variations THEN correct_bool = FALSE
        ELSE FALSE

\* What the grading oracles (primary, then fallback) can produce for one
\* free-text evaluation: a parsed verdict, a response that is not JSON, no
\* response from either oracle, or an exception.
OracleOutcomes == {"judged_true", "judged_false", "unparseable", "both_empty", "raised"}

BriefAnswerLen == 10

\* evaluate_free_text measuring the answer as typed.
evaluate_free_text_Untrimmed(user_answer, oracle) ==
    CASE oracle = "judged_true"  -> TRUE
      [] oracle = "judged_false" -> FALSE
      [] oracle = "both_empty"   -> ~(Len(user_answer) < BriefAnswerLen)
      [] oracle = "unparseable"  -> TRUE
      [] OTHER                   -> FALSE

evaluate_free_text(user_answer, oracle) ==
    CASE oracle = "judged_true"  -> TRUE
      [] oracle = "judged_false" -> FALSE
      [] oracle = "both_empty"   -> ~(Len(Strip(user_answer)) < BriefAnswerLen)
      [] oracle = "unparseable"  -> TRUE
      [] OTHER                   -> FALSE

evaluate_answer(question_type, user_answer, correct_answer, oracle) ==
    LET qt == Lower(question_type)
    IN  IF qt = <<"m","c","q">> THEN evaluate_mcq(user_answer, correct_answer)
        ELSE IF qt \in { <<"t","r","u","e","_","f","a","l","s","e">>,
                         <<"t","r","u","e","f","a","l","s","e">>,
                         <<"t","f">> }
             THEN evaluate_true_false(user_answer, correct_answer)
        ELSE IF qt \in { <<"f","r","e","e","_","t","e","x","t">>,
                         <<"f","r","e","e","t","e","x","t">>,
                         <<"f","r","e","e">>, <<"t","e","x","t">> }
             THEN evaluate_free_text(user_answer, oracle)
        ELSE normalize_answer(user_answer) = normalize_answer(correct_answer)

UsesOracle(question_type) ==
    Lower(question_type) \in { <<"f","r","e","e","_","t","e","x","t">>,
                               <<"f","r","e","e","t","e","x","t">>,
                               <<"f","r","e","e">>, <<"t","e","x","t">> }

\* The oracle is consulted for free-text questions only.
OraclesFor(question_type) ==
    IF UsesOracle(question_type) THEN OracleOutcomes ELSE {"not_called"}

\* ------------------------------------------------------------------ inputs
\* The answers a client submits, each with the way it was entered.
Submissions ==
    { [answer |-> <<"a">>,      input_method |-> "typed"],
      [answer |-> <<"n","o">>,  input_method |-> "voice"] }

\* The i-th question the generator produces (question_text, options and
\* explanation are never read by the session logic and are left out).
GeneratedQuestion(i) ==
    CASE i % 3 = 1 -> [question_type  |-> <<"m","c","q">>,
                       correct_answer |-> <<"A">>]
      [] i % 3 = 2 -> [question_type  |-> <<"t","r","u","e","_","f","a","l","s","e">>,
                       correct_answer |-> <<"f","a","l","s","e">>]
      [] OTHER     -> [question_type  |-> <<"f","r","e","e","_","t","e","x","t">>,
                       correct_answer |-> <<"x">>]

\* generate_quiz_questions returns a list of 0..num_questions payloads.
generate_quiz_questions(n) == [i \in 1..n |-> GeneratedQuestion(i)]

\* ------------------------------------------------------------------- state
VARIABLES
    quiz_sessions,  \* table quiz_sessions: row i has id i
    questions,      \* table questions: row i has id i
    calls,          \* the requests being served: locals and position of each
    clock,          \* datetime.now(): strictly increasing readings
    response,       \* what a request returned or raised, until it is
                    \* delivered
    documents,      \* table documents: row i has id i
    chunks,         \* table chunks, in insertion order
    vectors,        \* the points of the vector collection
    run,            \* the process_document run: its locals and position
    fn              \* a service function being called on its own: its
                    \* arguments, locals, position and result

session_vars == <<quiz_sessions, questions, calls, clock, response>>
ingest_vars == <<documents, chunks, vectors, run>>
vars == <<quiz_sessions, questions, calls, clock, response,
          documents, chunks, vectors, run, fn>>

\* No service function is being called on its own.
NoCall == [name |-> "none", pc |-> "idle"]

\* No process_document run has started yet.
IdleRun ==
    [pc |-> "idle", document_id |-> 0, file_type |-> "",
     page_count |-> 0, chunks |-> <<>>, embeddings |-> 0,
     point_ids |-> <<>>, saved |-> 0, error_message |-> "",
     outcome |-> "none"]

IdleCall ==
    [op |-> "none", pc |-> "idle",
     session_id |-> 0, user_id |-> "", question_id |-> 0,
     answer |-> <<>>, input_method |-> "", num |-> 0,
     session |-> None, question |-> None,
     is_correct |-> FALSE, now |-> 0,
     new_answered |-> 0, new_correct |-> 0, is_complete |-> FALSE]

\* What a request named: a session, the user making it, a question.
Request(sid, uid, qid) == [session_id |-> sid, user_id |-> uid, question_id |-> qid]

RequestOf(c) == Request(calls[c].session_id, calls[c].user_id, calls[c].question_id)

NoResponse == [op |-> "none", kind |-> "none", detail |-> "", status_code |-> 0]

Init ==
    /\ quiz_sessions = <<>>
    /\ questions = <<>>
    /\ calls = [c \in Calls |-> IdleCall]
    /\ clock = 1
    /\ response = NoResponse
    /\ documents = <<>>
    /\ chunks = <<>>
    /\ vectors = {}
    /\ run = IdleRun
    /\ fn = NoCall

\* The ids a client may name: those of the rows there are, and one of no row.
SessionIds == 1..(Len(quiz_sessions) + 1)
QuestionIds == 1..(Len(questions) + 1)

Free(c) == calls[c].pc = "idle"

\* Call c is about to make the record-store request at pc of operation op.
At(c, op, pc) ==
    /\ response = NoResponse
    /\ calls[c].op = op
    /\ calls[c].pc = pc
InFlight(c) == ~Free(c)

\* A request is taken by the first free slot (the slots are interchangeable),
\* once the response of the request that just returned has been delivered.
Accepts(c) ==
    /\ response = NoResponse
    /\ Free(c)
    /\ \A d \in Calls : d < c => InFlight(d)

\* ------------------------------------------------------- record-store queries
\* SelectSession without the .eq("user_id", uid) filter.
SelectSession_NoUserFilter(sid, uid) ==
    IF sid \in 1..Len(quiz_sessions) THEN Some(quiz_sessions[sid]) ELSE None

\* quiz_sessions.select("*").eq("id", sid).eq("user_id", uid)
SelectSession(sid, uid) ==
    IF sid \in 1..Len(quiz_sessions) /\ quiz_sessions[sid].user_id = uid
    THEN Some(quiz_sessions[sid])
    ELSE None

\* SelectQuestion without the .eq("session_id", sid) filter.
SelectQuestion_NoSessionFilter(qid, sid) ==
    IF qid \in 1..Len(questions) THEN Some(questions[qid]) ELSE None

\* questions.select("*").eq("id", qid).eq("session_id", sid)
SelectQuestion(qid, sid) ==
    IF qid \in 1..Len(questions) /\ questions[qid].session_id = sid
    THEN Some(questions[qid])
    ELSE None

SessionQuestions(sid) == {q \in 1..Len(questions) : questions[q].session_id = sid}

\* FirstUnanswered with the order descending.
FirstUnanswered_Highest(sid) ==
    LET open == {q \in SessionQuestions(sid) : questions[q].user_answer = None}
    IN  IF open = {} THEN None
        ELSE Some(CHOOSE q \in open :
                    \A r \in open :
                        questions[q].question_number >= questions[r].question_number)

\* FirstUnanswered without the .is_("user_answer", None) filter.
FirstUnanswered_IgnoresAnswered(sid) ==
    LET all == SessionQuestions(sid)
    IN  IF all = {} THEN None
        ELSE Some(CHOOSE q \in all :
                    \A r \in all :
                        questions[q].question_number <= questions[r].question_number)

\* questions.select("*").eq("session_id", sid).is_("user_answer", None)
\*          .order("question_number").limit(1)
FirstUnanswered(sid) ==
    LET open == {q \in SessionQuestions(sid) : questions[q].user_answer = None}
    IN  IF open = {} THEN None
        ELSE Some(CHOOSE q \in open :
                    \A r \in open :
                        questions[q].question_number <= questions[r].question_number)

QuestionInfo(q, session) ==
    [question_id     |-> q,
     question_number |-> questions[q].question_number,
     total_questions |-> session.total_questions]

\* ------------------------------------------------------------ HTTP mapping
\* routes/sessions.py: submit_quiz_answer maps ValueError to 400 and any other
\* exception to 500; create_quiz_session maps every exception to 500.
RouteStatus(op, kind) ==
    CASE kind = "ok"                                 -> 200
      [] kind = "ValueError" /\ op = "submit_answer" -> 400
      [] OTHER                                       -> 500

Raise(op, kind, detail) ==
    [op |-> op, kind |-> kind, detail |-> detail,
     status_code |-> RouteStatus(op, kind)]

NoneResult(op) == [op |-> op, kind |-> "None", detail |-> "", status_code |-> 404]

\* The call returns res (or raises it) and its slot is free again.  The
\* response is kept with the request it answers.
Reply(c, request, res) ==
    /\ calls' = [calls EXCEPT ![c] = IdleCall]
    /\ response' = [request |-> request] @@ res

Return(c, res) == Reply(c, RequestOf(c), res)

\* The call moves on to its next record-store request.
Goto(c, call) ==
    /\ calls' = [calls EXCEPT ![c] = call]
    /\ UNCHANGED response

\* The response is handed to the client.
Deliver ==
    /\ response # NoResponse
    /\ response' = NoResponse
    /\ UNCHANGED <<quiz_sessions, questions, calls, clock>>

\* ------------------------------------------------------------ create_session
PendingRows ==
    LET RECURSIVE Sum(_)
        Sum(S) == IF S = {} THEN 0
                  ELSE LET c == CHOOSE x \in S : TRUE
                       IN  calls[c].num + Sum(S \ {c})
    IN  Sum({c \in Calls : calls[c].op = "create_session"})

\* GenerationFailed without the test.
GenerationFailed_Never(generated) == FALSE

\* line 43: if not questions
GenerationFailed(generated) == generated = <<>>

\* lines 34-64: generate the questions, fail when there are none, insert the
\* session row.
InsertSession(c, uid, n) ==
    /\ Accepts(c)
    /\ LET generated == generate_quiz_questions(n)
       IN  IF GenerationFailed(generated)
           THEN /\ Reply(c, Request(0, uid, 0),
                         Raise("create_session", "ValueError",
                               "Failed to generate quiz questions"))
                /\ UNCHANGED quiz_sessions
           ELSE /\ quiz_sessions' = Append(quiz_sessions,
                      [user_id            |-> uid,
                       status             |-> "active",
                       total_questions    |-> Len(generated),
                       answered_questions |-> 0,
                       correct_answers    |-> 0,
                       completed_at       |-> None])
                /\ Goto(c, [IdleCall EXCEPT
                               !.op = "create_session",
                               !.pc = "insert_questions",
                               !.user_id = uid, !.num = n,
                               !.session_id = Len(quiz_sessions) + 1])
    /\ UNCHANGED <<questions, clock>>

\* QuestionRecord numbering from 0, as enumerate without its start would.
QuestionRecord_ZeroBased(sid, i, q) ==
    [session_id      |-> sid,
     question_number |-> i - 1,
     question_type   |-> q.question_type,
     correct_answer  |-> q.correct_answer,
     user_answer     |-> None,
     is_correct      |-> None,
     input_method    |-> None,
     answered_at     |-> None]

\* lines 68-87: the record of the i-th generated question, i from 1.
QuestionRecord(sid, i, q) ==
    [session_id      |-> sid,
     question_number |-> i,
     question_type   |-> q.question_type,
     correct_answer  |-> q.correct_answer,
     user_answer     |-> None,
     is_correct      |-> None,
     input_method    |-> None,
     answered_at     |-> None]

\* lines 66-109: insert the question records (one batch, the list is shorter
\* than 100), return the first of them.
InsertQuestions(c) ==
    /\ At(c, "create_session", "insert_questions")
    /\ LET generated == generate_quiz_questions(calls[c].num)
           records == [i \in 1..Len(generated) |->
                         QuestionRecord(calls[c].session_id, i, generated[i])]
       IN  /\ questions' = questions \o records
           /\ Return(c,
                  [op |-> "create_session", kind |-> "ok", detail |-> "",
                   status_code |-> 200,
                   session_id |-> calls[c].session_id,
                   total_questions |-> Len(generated),
                   first_question |->
                       IF records # <<>>
                       THEN Some([question_id     |-> Len(questions) + 1,
                                  question_number |-> records[1].question_number,
                                  total_questions |-> Len(generated)])
                       ELSE None])
    /\ UNCHANGED <<quiz_sessions, clock>>

\* ------------------------------------------------------------- submit_answer
\* line 292
SessionActive(session) == session.status = "active"

\* AlreadyAnswered with the check left out.
AlreadyAnswered_Never(question) == FALSE

\* line 310
AlreadyAnswered(question) == question.user_answer # None

\* NewAnswered without the increment.
NewAnswered_NoIncrement(session) == session.answered_questions

\* line 334
NewAnswered(session) == session.answered_questions + 1

\* line 335
NewCorrect(session, is_correct) ==
    session.correct_answers + (IF is_correct THEN 1 ELSE 0)

\* IsComplete with > for >=.
IsComplete_Strict(new_answered, session) == new_answered > session.total_questions

\* line 343
IsComplete(new_answered, session) == new_answered >= session.total_questions

\* lines 278-293: read the session of this user, reject a missing or an
\* inactive one.
\* (The question id and the answer of a request rejected here are never
\* looked at, so they are chosen only for a request that goes on.)
SubmitSelectSession(c, sid, uid) ==
    /\ Accepts(c)
    /\ LET found == SelectSession(sid, uid)
       IN  IF found = None
           THEN Reply(c, Request(sid, uid, 0),
                      Raise("submit_answer", "ValueError", "Session not found"))
           ELSE IF ~SessionActive(Val(found))
           THEN Reply(c, Request(sid, uid, 0),
                      Raise("submit_answer", "ValueError", "Session is not active"))
           ELSE \E qid \in QuestionIds, sub \in Submissions :
                  Goto(c, [IdleCall EXCEPT
                            !.op = "submit_answer",
                            !.pc = "fetch_question",
                            !.session_id = sid, !.user_id = uid,
                            !.question_id = qid,
                            !.answer = sub.answer,
                            !.input_method = sub.input_method,
                            !.session = found])
    /\ UNCHANGED <<quiz_sessions, questions, clock>>

\* lines 295-322: read the question, reject a missing or an answered one,
\* grade the answer.
SubmitFetchQuestion(c) ==
    /\ At(c, "submit_answer", "fetch_question")
    /\ LET found == SelectQuestion(calls[c].question_id, calls[c].session_id)
       IN  IF found = None
           THEN Return(c, Raise("submit_answer", "ValueError",
                                "Question not found"))
           ELSE IF AlreadyAnswered(Val(found))
           THEN Return(c, Raise("submit_answer", "ValueError",
                                "Question already answered"))
           ELSE \E oracle \in OraclesFor(Val(found).question_type) :
                     Goto(c, [calls[c] EXCEPT
                          !.pc = "update_question",
                          !.question = found,
                          !.is_correct =
                              evaluate_answer(Val(found).question_type,
                                              calls[c].answer,
                                              Val(found).correct_answer,
                                              oracle)])
    /\ UNCHANGED <<quiz_sessions, questions, clock>>

\* lines 325-346: read the clock and write the four answer fields of the row
\* with this id (the reading and the request are adjacent statements and are
\* one step here), then derive the new counters from the session as it was
\* read.
SubmitUpdateQuestion(c) ==
    /\ At(c, "submit_answer", "update_question")
    /\ clock <= MaxClock
    /\ questions' = [questions EXCEPT
           ![calls[c].question_id].user_answer  = Some(calls[c].answer),
           ![calls[c].question_id].is_correct   = Some(calls[c].is_correct),
           ![calls[c].question_id].input_method = Some(calls[c].input_method),
           ![calls[c].question_id].answered_at  = Some(clock)]
    /\ clock' = clock + 1
    /\ LET session == Val(calls[c].session)
           new_answered == NewAnswered(session)
       IN  Goto(c, [calls[c] EXCEPT
               !.pc = "update_session",
               !.now = clock,
               !.new_answered = new_answered,
               !.new_correct = NewCorrect(session, calls[c].is_correct),
               !.is_complete = IsComplete(new_answered, session)])
    /\ UNCHANGED quiz_sessions

SubmitResult(c, next_question) ==
    [op |-> "submit_answer", kind |-> "ok", detail |-> "", status_code |-> 200,
     is_correct |-> calls[c].is_correct,
     score_so_far |-> calls[c].new_correct,
     total_answered |-> calls[c].new_answered,
     next_question |-> next_question,
     session_complete |-> calls[c].is_complete]

\* lines 348-353: write the counters, and status and completed_at when the
\* session is complete; a complete session has no next question.
SubmitUpdateSession(c) ==
    /\ At(c, "submit_answer", "update_session")
    /\ LET sid == calls[c].session_id
       IN  quiz_sessions' =
             IF calls[c].is_complete
             THEN [quiz_sessions EXCEPT
                     ![sid].answered_questions = calls[c].new_answered,
                     ![sid].correct_answers = calls[c].new_correct,
                     ![sid].status = "completed",
                     ![sid].completed_at = Some(calls[c].now)]
             ELSE [quiz_sessions EXCEPT
                     ![sid].answered_questions = calls[c].new_answered,
                     ![sid].correct_answers = calls[c].new_correct]
    /\ IF calls[c].is_complete
       THEN Return(c, SubmitResult(c, None))
       ELSE Goto(c, [calls[c] EXCEPT !.pc = "next_question"])
    /\ UNCHANGED <<questions, clock>>

\* lines 354-388: look up the next unanswered question and return.
SubmitNextQuestion(c) ==
    /\ At(c, "submit_answer", "next_question")
    /\ LET next_q == FirstUnanswered(calls[c].session_id)
       IN  Return(c, SubmitResult(c,
                 IF next_q = None THEN None
                 ELSE Some(QuestionInfo(Val(next_q), Val(calls[c].session)))))
    /\ UNCHANGED <<quiz_sessions, questions, clock>>

\* ------------------------------------------------------ get_current_question
\* lines 206-224
CurrentSelectSession(c, sid, uid) ==
    /\ Accepts(c)
    /\ LET found == SelectSession(sid, uid)
       IN  IF found = None \/ ~SessionActive(Val(found))
           THEN Reply(c, Request(sid, uid, 0), NoneResult("get_current_question"))
           ELSE Goto(c, [IdleCall EXCEPT
                            !.op = "get_current_question",
                            !.pc = "next_question",
                            !.session_id = sid, !.user_id = uid,
                            !.session = found])
    /\ UNCHANGED <<quiz_sessions, questions, clock>>

\* lines 226-250
CurrentNextQuestion(c) ==
    /\ At(c, "get_current_question", "next_question")
    /\ LET next_q == FirstUnanswered(calls[c].session_id)
       IN  IF next_q = None
           THEN Return(c, NoneResult("get_current_question"))
           ELSE Return(c,
                  [op |-> "get_current_question", kind |-> "ok", detail |-> "",
                   status_code |-> 200,
                   question |-> QuestionInfo(Val(next_q), Val(calls[c].session))])
    /\ UNCHANGED <<quiz_sessions, questions, clock>>

\* --------------------------------------------------------------- get_session
\* RoundTenths truncating instead of rounding.
RoundTenths_Truncate(num, den) == (1000 * num) \div den

\* Python's round(x, 1) of x = 100 * num / den, in tenths: to nearest, a tie
\* to the even tenth.  (Ties need den to be a multiple of 16; below that the
\* floating-point quotient rounds as the exact one.)
RoundTenths(num, den) ==
    LET scaled == 1000 * num
        q == scaled \div den
        r == scaled % den
    IN  IF 2 * r < den THEN q
        ELSE IF 2 * r > den THEN q + 1
        ELSE IF q % 2 = 0 THEN q ELSE q + 1

\* ScorePercentage without the status == "completed" condition.
ScorePercentage_AnyStatus(session) ==
    IF session.total_questions > 0
    THEN Some(RoundTenths(session.correct_answers, session.total_questions))
    ELSE None

\* lines 154-159: the score in tenths of a percent, None unless completed.
ScorePercentage(session) ==
    IF session.status = "completed" /\ session.total_questions > 0
    THEN Some(RoundTenths(session.correct_answers, session.total_questions))
    ELSE None

\* .order("question_number")
RECURSIVE OrderByNumber(_)
OrderByNumber(S) ==
    IF S = {} THEN <<>>
    ELSE LET q == CHOOSE x \in S :
                    \A y \in S : questions[x].question_number
                                    <= questions[y].question_number
         IN  <<q>> \o OrderByNumber(S \ {q})

\* lines 127-141
GetSelectSession(c, sid, uid) ==
    /\ Accepts(c)
    /\ LET found == SelectSession(sid, uid)
       IN  IF found = None
           THEN Reply(c, Request(sid, uid, 0), NoneResult("get_session"))
           ELSE Goto(c, [IdleCall EXCEPT
                            !.op = "get_session",
                            !.pc = "select_questions",
                            !.session_id = sid, !.user_id = uid,
                            !.session = found])
    /\ UNCHANGED <<quiz_sessions, questions, clock>>

\* lines 143-188
GetSelectQuestions(c) ==
    /\ At(c, "get_session", "select_questions")
    /\ LET session == Val(calls[c].session)
           ordered == OrderByNumber(SessionQuestions(calls[c].session_id))
       IN  Return(c,
             [op |-> "get_session", kind |-> "ok", detail |-> "",
              status_code |-> 200,
              session_id |-> calls[c].session_id,
              status |-> session.status,
              total_questions |-> session.total_questions,
              answered_questions |-> session.answered_questions,
              correct_answers |-> session.correct_answers,
              score_percentage |-> ScorePercentage(session),
              questions |-> [i \in 1..Len(ordered) |->
                  [question_id     |-> ordered[i],
                   question_number |-> questions[ordered[i]].question_number,
                   user_answer     |-> questions[ordered[i]].user_answer,
                   is_correct      |-> questions[ordered[i]].is_correct]],
              completed_at |-> session.completed_at])
    /\ UNCHANGED <<quiz_sessions, questions, clock>>

\* ------------------------------------------------------------------ failures
\* The record-store request a call is about to make raises.  create_session
\* and submit_answer log and re-raise (lines 111-113, 390-392); get_session
\* and get_current_question log and return None (lines 190-192, 252-254).
StoreFails(c) ==
    /\ response = NoResponse
    /\ InFlight(c)
    /\ Return(c,
          IF calls[c].op \in {"create_session", "submit_answer"}
          THEN Raise(calls[c].op, "Exception", "record store error")
          ELSE NoneResult(calls[c].op))
    /\ UNCHANGED <<quiz_sessions, questions, clock>>

\* ------------------------------------------------------------ specifications
\* A request arrives: its first record-store request is made at once.
CreateSession(c, rows) ==
    \E uid \in Owners, n \in 0..MaxQuestions :
        /\ Len(quiz_sessions) < MaxSessions
        /\ Len(questions) + PendingRows + n <= rows
        /\ InsertSession(c, uid, n)

SubmitAnswer(c) ==
    \E sid \in SessionIds, uid \in Users : SubmitSelectSession(c, sid, uid)

GetCurrentQuestion(c) ==
    \E sid \in SessionIds, uid \in Users : CurrentSelectSession(c, sid, uid)

GetSession(c) ==
    \E sid \in SessionIds, uid \in Users : GetSelectSession(c, sid, uid)

\* Requests overlap freely and any record-store request may fail.
Next ==
    \/ Deliver /\ UNCHANGED <<ingest_vars, fn>>
    \/ \E c \in Calls : CreateSession(c, MaxQuestionRows) /\ UNCHANGED <<ingest_vars, fn>>
    \/ \E c \in Calls : InsertQuestions(c) /\ UNCHANGED <<ingest_vars, fn>>
    \/ \E c \in Calls : SubmitAnswer(c) /\ UNCHANGED <<ingest_vars, fn>>
    \/ \E c \in Calls : SubmitFetchQuestion(c) /\ UNCHANGED <<ingest_vars, fn>>
    \/ \E c \in Calls : SubmitUpdateQuestion(c) /\ UNCHANGED <<ingest_vars, fn>>
    \/ \E c \in Calls : SubmitUpdateSession(c) /\ UNCHANGED <<ingest_vars, fn>>
    \/ \E c \in Calls : SubmitNextQuestion(c) /\ UNCHANGED <<ingest_vars, fn>>
    \/ \E c \in Calls : GetCurrentQuestion(c) /\ UNCHANGED <<ingest_vars, fn>>
    \/ \E c \in Calls : CurrentNextQuestion(c) /\ UNCHANGED <<ingest_vars, fn>>
    \/ \E c \in Calls : GetSession(c) /\ UNCHANGED <<ingest_vars, fn>>
    \/ \E c \in Calls : GetSelectQuestions(c) /\ UNCHANGED <<ingest_vars, fn>>
    \/ \E c \in Calls : StoreFails(c) /\ UNCHANGED <<ingest_vars, fn>>

Spec == Init /\ [][Next]_vars

\* One request at a time, each run to its end, none failing.
NoneInFlight == \A d \in Calls : Free(d)

SeqNext ==
    \/ Deliver /\ UNCHANGED <<ingest_vars, fn>>
    \/ \E c \in Calls : NoneInFlight /\ CreateSession(c, SeqMaxQuestionRows) /\ UNCHANGED <<ingest_vars, fn>>
    \/ \E c \in Calls : InsertQuestions(c) /\ UNCHANGED <<ingest_vars, fn>>
    \/ \E c \in Calls : NoneInFlight /\ SubmitAnswer(c) /\ UNCHANGED <<ingest_vars, fn>>
    \/ \E c \in Calls : SubmitFetchQuestion(c) /\ UNCHANGED <<ingest_vars, fn>>
    \/ \E c \in Calls : SubmitUpdateQuestion(c) /\ UNCHANGED <<ingest_vars, fn>>
    \/ \E c \in Calls : SubmitUpdateSession(c) /\ UNCHANGED <<ingest_vars, fn>>
    \/ \E c \in Calls : SubmitNextQuestion(c) /\ UNCHANGED <<ingest_vars, fn>>
    \/ \E c \in Calls : NoneInFlight /\ GetCurrentQuestion(c) /\ UNCHANGED <<ingest_vars, fn>>
    \/ \E c \in Calls : CurrentNextQuestion(c) /\ UNCHANGED <<ingest_vars, fn>>
    \/ \E c \in Calls : NoneInFlight /\ GetSession(c) /\ UNCHANGED <<ingest_vars, fn>>
    \/ \E c \in Calls : GetSelectQuestions(c) /\ UNCHANGED <<ingest_vars, fn>>

SeqSpec == Init /\ [][SeqNext]_vars

\* ======================================================= document ingestion
\* services/ingestion.py: process_document, one run at a time.  Each request
\* to the record store, the blob store, a service or the vector index is one
\* step, and each may fail as its callee can.
MaxDocuments == 2      \* documents ever uploaded
MaxSegments == 2       \* segments the splitter returns for one text
MaxPages == 1          \* pages of one document
MaxChunkRows == 3      \* rows of the chunks table
MaxVectors == 3        \* points of the vector collection

\* routes/documents.py: file_type = "pdf" if file_ext == ".pdf" else "pptx"
FileTypes == {"pdf", "pptx"}

\* ingestion.py line 135
batch_size == 100

\* The ids process_document may be given: those of the rows there are, and
\* one that no row ever gets.
DocumentIds == (1..Len(documents)) \cup {MaxDocuments + 1}

DocumentExists(d) == d \in 1..Len(documents)

\* documents.update(fields).eq("id", d): a row that is not there is not
\* created.
UpdateDocument(d, fields) ==
    IF DocumentExists(d)
    THEN documents' = [documents EXCEPT ![d] = fields @@ documents[d]]
    ELSE UNCHANGED documents

\* routes/documents.py lines 126-151: the record of an accepted upload.
upload_document ==
    /\ Len(documents) < MaxDocuments
    /\ \E file_type \in FileTypes, user_id \in Owners :
          documents' = Append(documents,
              [user_id       |-> user_id,
               status        |-> "pending",
               file_type     |-> file_type,
               error_message |-> None,
               chunk_count   |-> None,
               page_count    |-> None])
    /\ UNCHANGED <<chunks, vectors, run>>

RunAt(pc) == run.pc = pc

\* The run goes on to _mark_document_failed(document_id, error_message).
Fail(error_message) ==
    run' = [run EXCEPT !.pc = "mark_failed", !.error_message = error_message]

\* The run is over: its locals are gone; what it was given, the type of the
\* record it found and how it ended stay until the next run starts.
Done(outcome) ==
    run' = [IdleRun EXCEPT !.pc = "done", !.outcome = outcome,
                           !.document_id = run.document_id,
                           !.file_type = run.file_type,
                           !.error_message = run.error_message]

\* lines 32-37: the run starts and writes status = processing.
MarkProcessing(d) ==
    /\ run.pc \in {"idle", "done"}
    /\ Len(chunks) + MaxSegments <= MaxChunkRows
    /\ Cardinality(vectors) + MaxSegments <= MaxVectors
    /\ \/ /\ UpdateDocument(d, [status |-> "processing"])
          /\ run' = [IdleRun EXCEPT !.pc = "fetch", !.document_id = d]
       \/ /\ UNCHANGED documents
          /\ run' = [IdleRun EXCEPT !.pc = "mark_failed", !.document_id = d,
                                    !.error_message = "Unexpected error"]
    /\ UNCHANGED <<chunks, vectors>>

\* FetchDocument without the return of line 44.
FetchDocument_NoReturn ==
    /\ RunAt("fetch")
    /\ \/ run' = [run EXCEPT !.pc = "download",
                     !.file_type = IF DocumentExists(run.document_id)
                                   THEN documents[run.document_id].file_type
                                   ELSE ""]
       \/ Fail("Unexpected error")
    /\ UNCHANGED <<documents, chunks, vectors>>

\* lines 40-48: fetch the record; return when there is none.
FetchDocument ==
    /\ RunAt("fetch")
    /\ \/ IF DocumentExists(run.document_id)
          THEN run' = [run EXCEPT !.pc = "download",
                          !.file_type = documents[run.document_id].file_type]
          ELSE Done("not_found")
       \/ Fail("Unexpected error")
    /\ UNCHANGED <<documents, chunks, vectors>>

\* The reason of the outer handler (line 160) in place of line 59's.
DownloadFailed_Generic == "Unexpected error"

\* line 59: f"Failed to download file: {str(e)}"
DownloadFailed == "Failed to download file"

\* lines 53-60
DownloadFile ==
    /\ RunAt("download")
    /\ \/ run' = [run EXCEPT !.pc = "extract"]
       \/ Fail(DownloadFailed)
    /\ UNCHANGED <<documents, chunks, vectors>>

\* lines 63-83: extract_text_from_pdf and extract_text_from_pptx catch every
\* exception and return ("", 0), so a failed extraction shows as blank text.
ExtractText ==
    /\ RunAt("extract")
    /\ IF run.file_type \notin {"pdf", "pptx"}
       THEN Fail("Unsupported file type")
       ELSE \/ \E pages \in 1..MaxPages :
                  run' = [run EXCEPT !.pc = "chunk", !.page_count = pages]
            \/ Fail("No text could be extracted from the document")
    /\ UNCHANGED <<documents, chunks, vectors>>

\* What the splitter returns: for each segment, whether it has text.
Segmentations ==
    UNION {[1..n -> BOOLEAN] : n \in 0..MaxSegments}

\* services/chunking.py lines 38-46: the segments with text, each keeping
\* its position in the splitter's list as chunk_index.
RECURSIVE chunk_text_from(_, _)
chunk_text_from(segments, i) ==
    IF i > Len(segments) THEN <<>>
    ELSE (IF segments[i] THEN <<[chunk_index |-> i - 1]>> ELSE <<>>)
            \o chunk_text_from(segments, i + 1)

chunk_text(segments) == chunk_text_from(segments, 1)

\* lines 86-96: chunk_text catches every exception and returns [].
ChunkText ==
    /\ RunAt("chunk")
    /\ \E segments \in Segmentations :
          IF chunk_text(segments) = <<>>
          THEN Fail("Failed to create text chunks")
          ELSE run' = [run EXCEPT !.pc = "embed",
                           !.chunks = chunk_text(segments)]
    /\ UNCHANGED <<documents, chunks, vectors>>

\* GenerateEmbeddings without the return of line 105.
GenerateEmbeddings_NoReturn ==
    /\ RunAt("embed")
    /\ \E embeddings \in {0, Len(run.chunks)} :
          run' = [run EXCEPT !.pc = "store", !.embeddings = embeddings]
    /\ UNCHANGED <<documents, chunks, vectors>>

\* lines 99-110: get_embeddings returns one vector per text, or [] when
\* the oracle failed on a batch.
GenerateEmbeddings ==
    /\ RunAt("embed")
    /\ \E embeddings \in {0, Len(run.chunks)} :
          IF embeddings = 0
          THEN Fail("Failed to generate embeddings")
          ELSE run' = [run EXCEPT !.pc = "store", !.embeddings = embeddings]
    /\ UNCHANGED <<documents, chunks, vectors>>

\* core/qdrant.py lines 113-131: one point per chunk, each with a fresh id.
NewPoints(document_id, run_chunks) ==
    [i \in 1..Len(run_chunks) |->
        [id          |-> Cardinality(vectors) + i,
         document_id |-> document_id,
         chunk_index |-> run_chunks[i].chunk_index]]

\* lines 113-119 and core/qdrant.py store_vectors: nothing to store returns
\* [], lists of different lengths raise, the upsert may raise.
StoreVectors ==
    /\ RunAt("store")
    /\ IF run.chunks = <<>> \/ run.embeddings = 0
       THEN /\ run' = [run EXCEPT !.pc = "save", !.point_ids = <<>>]
            /\ UNCHANGED vectors
       ELSE IF Len(run.chunks) # run.embeddings
       THEN /\ Fail("Vector storage failed")
            /\ UNCHANGED vectors
       ELSE LET points == NewPoints(run.document_id, run.chunks)
            IN  \/ /\ vectors' = vectors \cup {points[i] : i \in 1..Len(points)}
                   /\ run' = [run EXCEPT !.pc = "save",
                                  !.point_ids = [i \in 1..Len(points) |-> points[i].id]]
                \/ /\ Fail("Vector storage failed")
                   /\ UNCHANGED vectors
    /\ UNCHANGED <<documents, chunks>>

\* lines 123-132: the record of the i-th chunk.
ChunkRecord(i) ==
    [document_id  |-> run.document_id,
     chunk_index  |-> run.chunks[i].chunk_index,
     embedding_id |-> IF i <= Len(run.point_ids) THEN Some(run.point_ids[i])
                      ELSE None]

Min(a, b) == IF a < b THEN a ELSE b

\* lines 134-144: insert the next batch of at most batch_size records; the
\* run goes on when the last batch is in.
SaveChunks ==
    /\ RunAt("save")
    /\ LET first == run.saved + 1
           last == Min(run.saved + batch_size, Len(run.chunks))
       IN  \/ /\ chunks' = chunks \o [i \in 1..(last - first + 1) |->
                                         ChunkRecord(first + i - 1)]
              /\ run' = [run EXCEPT !.saved = last,
                             !.pc = IF last = Len(run.chunks)
                                    THEN "mark_ready" ELSE "save"]
           \/ /\ Fail("Failed to save chunks")
              /\ UNCHANGED chunks
    /\ UNCHANGED <<documents, vectors>>

\* MarkReady handing a failure of its write to _mark_document_failed.
MarkReady_MarksFailed ==
    /\ RunAt("mark_ready")
    /\ \/ /\ UpdateDocument(run.document_id,
                [status      |-> "ready",
                 chunk_count |-> Some(Len(run.chunks)),
                 page_count  |-> Some(run.page_count)])
          /\ Done("ready")
       \/ /\ UNCHANGED documents
          /\ Fail("Unexpected error")
    /\ UNCHANGED <<chunks, vectors>>

\* lines 147-156: write status = ready; a failure of this write is logged
\* and the document is not marked failed.
MarkReady ==
    /\ RunAt("mark_ready")
    /\ \/ /\ UpdateDocument(run.document_id,
                [status      |-> "ready",
                 chunk_count |-> Some(Len(run.chunks)),
                 page_count  |-> Some(run.page_count)])
          /\ Done("ready")
       \/ /\ UNCHANGED documents
          /\ Done("ready_write_failed")
    /\ UNCHANGED <<chunks, vectors>>

\* FailedFields without the status.
FailedFields_NoStatus(error_message) ==
    [error_message |-> Some(error_message)]

\* lines 172-175
FailedFields(error_message) ==
    [status |-> "failed", error_message |-> Some(error_message)]

\* lines 163-178: write status = failed and the reason; a failure of this
\* write is logged.
mark_document_failed ==
    /\ RunAt("mark_failed")
    /\ \/ /\ UpdateDocument(run.document_id, FailedFields(run.error_message))
          /\ Done("failed")
       \/ /\ UNCHANGED documents
          /\ Done("failed_write_failed")
    /\ UNCHANGED <<chunks, vectors>>

process_document ==
    \E d \in DocumentIds : MarkProcessing(d)

IngestNext ==
    \/ upload_document /\ UNCHANGED <<session_vars, fn>>
    \/ process_document /\ UNCHANGED <<session_vars, fn>>
    \/ FetchDocument /\ UNCHANGED <<session_vars, fn>>
    \/ DownloadFile /\ UNCHANGED <<session_vars, fn>>
    \/ ExtractText /\ UNCHANGED <<session_vars, fn>>
    \/ ChunkText /\ UNCHANGED <<session_vars, fn>>
    \/ GenerateEmbeddings /\ UNCHANGED <<session_vars, fn>>
    \/ StoreVectors /\ UNCHANGED <<session_vars, fn>>
    \/ SaveChunks /\ UNCHANGED <<session_vars, fn>>
    \/ MarkReady /\ UNCHANGED <<session_vars, fn>>
    \/ mark_document_failed /\ UNCHANGED <<session_vars, fn>>

IngestSpec == Init /\ [][IngestNext]_vars

\* ==================================================== service functions
\* The service functions called on their own, one call at a time: each call
\* draws its arguments, makes its requests to an oracle or to the vector
\* index one step at a time, and leaves its result in fn until the caller
\* has it.
FnFree == fn.pc = "idle"

FnReturn ==
    /\ fn.pc = "returned"
    /\ fn' = NoCall
    /\ UNCHANGED <<session_vars, ingest_vars>>

FnAt(name, pc) == fn.name = name /\ fn.pc = pc

\* ---------------------------------------------- services/embeddings.py
MAX_BATCH_SIZE == 100

\* A text is the number of its position in the list, or 0 when it is blank
\* (empty or whitespace-only).
MaxTexts == 250

EmbedSizes == {0, 1, 2, 99, 100, 101, 200, MaxTexts}

TextLists ==
    UNION { { [i \in 1..n |-> i],
              [i \in 1..n |-> IF i = 1 THEN 0 ELSE i],
              [i \in 1..n |-> 0] } : n \in EmbedSizes }

\* line 39
valid_texts(texts) == SelectSeq(texts, LAMBDA t : t # 0)

\* The vector the oracle computes for a text.
Embedding(text) == [embedding_of |-> text]

\* The whole remainder in one request.
Batch_Whole(texts, i) == SubSeq(texts, i + 1, Len(texts))

\* line 49: valid_texts[i:i + MAX_BATCH_SIZE]
Batch(texts, i) == SubSeq(texts, i + 1, Min(i + MAX_BATCH_SIZE, Len(texts)))

\* lines 34-44: nothing to embed returns [] without a request.
get_embeddings ==
    /\ FnFree
    /\ \E texts \in TextLists :
          fn' = [name |-> "get_embeddings",
                 pc |-> IF valid_texts(texts) = <<>> THEN "returned" ELSE "batch",
                 texts |-> texts,
                 valid_texts |-> valid_texts(texts),
                 i |-> 0,
                 all_embeddings |-> <<>>,
                 oracle_calls |-> <<>>,
                 oracle_failed |-> FALSE,
                 result |-> <<>>]
    /\ UNCHANGED <<session_vars, ingest_vars>>

\* embeddings_create returning the vectors it has when a request raises.
embeddings_create_KeepsPartial ==
    /\ FnAt("get_embeddings", "batch")
    /\ LET batch == Batch(fn.valid_texts, fn.i)
           all == fn.all_embeddings \o [k \in 1..Len(batch) |-> Embedding(batch[k])]
           next == fn.i + Len(batch)
       IN  \/ fn' = [fn EXCEPT
                       !.oracle_calls = Append(@, batch),
                       !.all_embeddings = all,
                       !.i = next,
                       !.pc = IF next >= Len(fn.valid_texts)
                              THEN "returned" ELSE "batch",
                       !.result = IF next >= Len(fn.valid_texts)
                                  THEN all ELSE <<>>]
           \/ fn' = [fn EXCEPT
                       !.oracle_calls = Append(@, batch),
                       !.oracle_failed = TRUE,
                       !.pc = "returned",
                       !.result = fn.all_embeddings]
    /\ UNCHANGED <<session_vars, ingest_vars>>

\* lines 48-65: one request per batch; the vectors of the batch are appended
\* in the order of the batch; a request that raises ends the call with [].
embeddings_create ==
    /\ FnAt("get_embeddings", "batch")
    /\ LET batch == Batch(fn.valid_texts, fn.i)
           all == fn.all_embeddings \o [k \in 1..Len(batch) |-> Embedding(batch[k])]
           next == fn.i + Len(batch)
       IN  \/ fn' = [fn EXCEPT
                       !.oracle_calls = Append(@, batch),
                       !.all_embeddings = all,
                       !.i = next,
                       !.pc = IF next >= Len(fn.valid_texts)
                              THEN "returned" ELSE "batch",
                       !.result = IF next >= Len(fn.valid_texts)
                                  THEN all ELSE <<>>]
           \/ fn' = [fn EXCEPT
                       !.oracle_calls = Append(@, batch),
                       !.oracle_failed = TRUE,
                       !.pc = "returned",
                       !.result = <<>>]
    /\ UNCHANGED <<session_vars, ingest_vars>>

\* ---------------------------------------------------- core/qdrant.py
\* The chunk lists store_vectors is given: k chunks numbered from 0.
ChunkLists == { [i \in 1..k |-> [chunk_index |-> i - 1]] : k \in 0..MaxSegments }

\* lines 87-143: an empty list on either side returns [] at once (lines
\* 105-107); lists of different lengths raise ValueError (lines 109-111);
\* otherwise one upsert of one point per chunk, which may raise.
store_vectors ==
    /\ FnFree
    /\ \E d \in 1..MaxDocuments, in_chunks \in ChunkLists,
          embeddings \in 0..MaxSegments :
          LET call == [name |-> "store_vectors", pc |-> "returned",
                       document_id |-> d, chunks |-> in_chunks,
                       embeddings |-> embeddings,
                       raised |-> "", point_ids |-> <<>>]
              points == NewPoints(d, in_chunks)
          IN  /\ Cardinality(vectors) + Len(in_chunks) <= MaxVectors
              /\ IF in_chunks = <<>> \/ embeddings = 0
                 THEN /\ fn' = call
                      /\ UNCHANGED vectors
                 ELSE IF Len(in_chunks) # embeddings
                 THEN /\ fn' = [call EXCEPT !.raised = "ValueError"]
                      /\ UNCHANGED vectors
                 ELSE \/ /\ vectors' = vectors \cup
                                         {points[i] : i \in 1..Len(points)}
                         /\ fn' = [call EXCEPT !.point_ids =
                                     [i \in 1..Len(points) |-> points[i].id]]
                      \/ /\ fn' = [call EXCEPT !.raised = "upsert"]
                         /\ UNCHANGED vectors
    /\ UNCHANGED <<session_vars, documents, chunks, run>>

\* ------------------------------------------------- the oracles' responses
\* An oracle's reply is its text and the JSON document in it: in the text
\* "@" stands for the document and "^" for the backquote character of a code
\* fence.  The empty text is what call_kimi and call_openai return when the
\* request failed or the oracle sent nothing (services/llm.py).
TextsWithDocument ==
    { <<"@">>,
      <<" ", "@", "\n">>,
      <<"^", "^", "^", "j", "s", "o", "n", "\n", "@", "\n", "^", "^", "^">>,
      <<"^", "^", "^", "\n", "@", "\n", "^", "^", "^">>,
      <<"^", "^", "^", "j", "s", "o", "n", "@">> }

TextsWithoutDocument ==
    { <<" ">>,
      <<"x">>,
      <<"^", "^", "^", "j", "s", "o", "n">>,
      <<"@", "x">> }

NoDocument == [kind |-> "none"]

EmptyResponse == [text |-> <<>>, doc |-> NoDocument]

Responses(docs) ==
    {EmptyResponse}
      \cup {[text |-> t, doc |-> NoDocument] : t \in TextsWithoutDocument}
      \cup {[text |-> t, doc |-> d] : t \in TextsWithDocument, d \in docs}

StartsWith(s, prefix) ==
    Len(s) >= Len(prefix) /\ SubSeq(s, 1, Len(prefix)) = prefix

EndsWith(s, suffix) ==
    Len(s) >= Len(suffix) /\ SubSeq(s, Len(s) - Len(suffix) + 1, Len(s)) = suffix

Fence == <<"^", "^", "^">>
FenceJson == <<"^", "^", "^", "j", "s", "o", "n">>

\* quiz_generator.py lines 120-127 and answer_evaluator.py lines 164-171
clean_response(text) ==
    LET stripped == Strip(text)
        no_json == IF StartsWith(stripped, FenceJson)
                   THEN SubSeq(stripped, Len(FenceJson) + 1, Len(stripped))
                   ELSE stripped
        no_head == IF StartsWith(no_json, Fence)
                   THEN SubSeq(no_json, Len(Fence) + 1, Len(no_json))
                   ELSE no_json
        no_tail == IF EndsWith(no_head, Fence)
                   THEN SubSeq(no_head, 1, Len(no_head) - Len(Fence))
                   ELSE no_head
    IN  Strip(no_tail)

\* json.loads succeeds when the cleaned text is exactly the document.
Decodes(reply) == clean_response(reply.text) = <<"@">>

\* "if not response" with every response.
NotResponse_Always(reply) == TRUE

\* "if not response": the response is the empty string.
NotResponse(reply) == reply.text = <<>>

OracleCall(oracle, reply) ==
    [oracle |-> oracle, empty |-> reply.text = <<>>]

\* ----------------------------------------- services/quiz_generator.py
\* The elements of the array the oracle writes: a JSON object with some of
\* the two keys the generator looks for, or a value that is no object.  Each
\* carries its position in the array.
MaxElements == 3

ElementKinds ==
    {[is_dict |-> FALSE, keys |-> {}]}
      \cup {[is_dict |-> TRUE, keys |-> k] :
                k \in SUBSET {"question_text", "question_type"}}

QuizDocuments ==
    {[kind |-> "object", items |-> <<>>]}
      \cup UNION { {[kind |-> "array",
                     items |-> [i \in 1..n |-> [position |-> i] @@ kinds[i]]] :
                        kinds \in [1..n -> ElementKinds]} : n \in 0..MaxElements }

\* Every object in the array is kept.
valid_question_AnyObject(q) == q.is_dict

\* line 138
valid_question(q) ==
    q.is_dict /\ "question_text" \in q.keys /\ "question_type" \in q.keys

\* Every surviving element is returned.
Truncate_Nothing(s, n) == s

\* line 142: valid_questions[:num_questions]
Truncate(s, n) == SubSeq(s, 1, Min(n, Len(s)))

\* lines 118-147: a text that is not JSON, or a document that is not an
\* array, gives [].
parse_questions(reply, num_questions) ==
    IF ~Decodes(reply) THEN <<>>
    ELSE IF reply.doc.kind # "array" THEN <<>>
    ELSE Truncate(SelectSeq(reply.doc.items, valid_question), num_questions)

\* lines 67-78: retrieval; no chunk ends the call with [].
GenerateQuiz ==
    /\ FnFree
    /\ \E num_questions \in 1..MaxQuestions, retrieved \in BOOLEAN :
          fn' = [name |-> "generate_quiz_questions",
                 pc |-> IF retrieved THEN "call_kimi" ELSE "returned",
                 num_questions |-> num_questions,
                 retrieved |-> retrieved,
                 oracle_calls |-> <<>>,
                 reply |-> EmptyResponse,
                 result |-> <<>>]
    /\ UNCHANGED <<session_vars, ingest_vars>>

\* lines 105-111, and 117-147 when the primary oracle answered
QuizCallKimi ==
    /\ FnAt("generate_quiz_questions", "call_kimi")
    /\ \E reply \in Responses(QuizDocuments) :
          fn' = [fn EXCEPT
                   !.oracle_calls = Append(@, OracleCall("primary", reply)),
                   !.reply = reply,
                   !.pc = IF NotResponse(reply) THEN "call_openai" ELSE "returned",
                   !.result = IF NotResponse(reply) THEN <<>>
                              ELSE parse_questions(reply, fn.num_questions)]
    /\ UNCHANGED <<session_vars, ingest_vars>>

\* lines 111-147: the fallback oracle; no response from it either gives [].
QuizCallOpenAI ==
    /\ FnAt("generate_quiz_questions", "call_openai")
    /\ \E reply \in Responses(QuizDocuments) :
          fn' = [fn EXCEPT
                   !.oracle_calls = Append(@, OracleCall("fallback", reply)),
                   !.reply = reply,
                   !.pc = "returned",
                   !.result = IF NotResponse(reply) THEN <<>>
                              ELSE parse_questions(reply, fn.num_questions)]
    /\ UNCHANGED <<session_vars, ingest_vars>>

\* --------------------------------------- evaluate_answer called on its own
\* The question types, answers and correct answers a call is given.
QuestionTypes ==
    { <<"m", "c", "q">>,
      <<"M", "C", "Q">>,
      <<"t", "r", "u", "e", "_", "f", "a", "l", "s", "e">>,
      <<"t", "f">>,
      <<"f", "r", "e", "e", "_", "t", "e", "x", "t">>,
      <<"T", "e", "x", "t">>,
      <<"e", "s", "s", "a", "y">> }

McqAnswers ==
    { <<"A">>,
      <<"a">>,
      <<" ", "a", " ">>,
      <<"A", ")", " ", "P", "a", "r", "i", "s">>,
      <<"b">>,
      <<"B", ".", " ", "R", "o", "m", "e">>,
      <<"c", " ", "r", "o", "m", "e">>,
      <<"P", "a", "r", "i", "s">>,
      <<"A", "B">>,
      <<>> }

TrueFalseAnswers ==
    { <<"t", "r", "u", "e">>,
      <<"t">>,
      <<"y", "e", "s">>,
      <<"1">>,
      <<"c", "o", "r", "r", "e", "c", "t">>,
      <<"r", "i", "g", "h", "t">>,
      <<"f", "a", "l", "s", "e">>,
      <<"f">>,
      <<"n", "o">>,
      <<"0">>,
      <<"i", "n", "c", "o", "r", "r", "e", "c", "t">>,
      <<"w", "r", "o", "n", "g">>,
      <<"n", "o", "t", " ", "t", "r", "u", "e">>,
      <<" ", "T", "R", "U", "E", "\n">>,
      <<"Y", "e", "s">>,
      <<"N", "o", " ">>,
      <<"y", "e", "p">>,
      <<"m", "a", "y", "b", "e">> }

FreeTextAnswers ==
    { <<"1", "2", "3", "4", "5", "6", "7", "8", "9">>,
      <<"1", "2", "3", "4", "5", "6", "7", "8", "9", "0">>,
      <<" ", "1", "2", "3", "4", "5", "6", "7", "8", "9", " ">> }

UserAnswers == McqAnswers \cup TrueFalseAnswers \cup FreeTextAnswers

CorrectAnswers ==
    { <<"A">>,
      <<"b", ")", " ", "R", "o", "m", "e">>,
      <<"P", "a", "r", "i", "s">>,
      <<"t", "r", "u", "e">>,
      <<"T", "r", "u", "e">>,
      <<"f", "a", "l", "s", "e">>,
      <<"n", "o">>,
      <<"m", "a", "y", "b", "e">> }

\* The documents a grading oracle writes: an object with is_correct true or
\* false, an object without is_correct, or an array.
EvalDocuments ==
    {[kind |-> "object", is_correct |-> v] : v \in {"true", "false", "absent"}}
      \cup {[kind |-> "array", is_correct |-> "absent"]}

\* answer_evaluator.py lines 154-177, what the last reply amounts to: no
\* reply from either oracle; a text json.loads rejects; a document with no
\* .get, which raises; an object, whose is_correct defaults to False.
OracleOutcome(reply) ==
    IF NotResponse(reply) THEN "both_empty"
    ELSE IF ~Decodes(reply) THEN "unparseable"
    ELSE IF reply.doc.kind # "object" THEN "raised"
    ELSE IF reply.doc.is_correct = "true" THEN "judged_true"
    ELSE "judged_false"

\* The exception leaves evaluate_free_text.
ExceptHandler_Reraise ==
    [raised |-> TRUE, is_correct |-> FALSE, feedback |-> ""]

\* lines 184-186
ExceptHandler ==
    [raised |-> FALSE, is_correct |-> FALSE,
     feedback |-> "Could not evaluate answer. Please try again."]

\* lines 158, 159, 175, 182: the feedback of a free-text verdict.
free_text_feedback(user_answer, oracle) ==
    CASE oracle = "both_empty" ->
            IF Len(Strip(user_answer)) < BriefAnswerLen
            THEN "Your answer seems too brief. Please provide more detail."
            ELSE "Answer received. (Automated evaluation unavailable)"
      [] oracle = "unparseable" -> "Answer received. (Evaluation parsing failed)"
      [] OTHER -> "the oracle's feedback"

\* lines 132-186
free_text_result(user_answer, oracle) ==
    IF oracle = "raised" THEN ExceptHandler
    ELSE [raised |-> FALSE,
          is_correct |-> evaluate_free_text(user_answer, oracle),
          feedback |-> free_text_feedback(user_answer, oracle)]

\* lines 44-47, 79-87, 233: the feedback of the other verdicts.
feedback_of(question_type, user_answer, is_correct) ==
    IF /\ Lower(question_type) \in { <<"t","r","u","e","_","f","a","l","s","e">>,
                                     <<"t","r","u","e","f","a","l","s","e">>,
                                     <<"t","f">> }
       /\ normalize_answer(user_answer) \notin true_variations \cup false_variations
    THEN "Could not determine your answer."
    ELSE IF is_correct THEN "Correct" ELSE "Incorrect"

\* lines 207-234: the verdict evaluate_answer returns, or the exception that
\* leaves it.
evaluate_answer_result(question_type, user_answer, correct_answer, oracle) ==
    IF UsesOracle(question_type) THEN free_text_result(user_answer, oracle)
    ELSE LET is_correct == evaluate_answer(question_type, user_answer,
                                           correct_answer, oracle)
         IN  [raised |-> FALSE, is_correct |-> is_correct,
              feedback |-> feedback_of(question_type, user_answer, is_correct)]

\* lines 207-234; a free-text answer goes to the primary oracle.
EvaluateAnswer ==
    /\ FnFree
    /\ \E question_type \in QuestionTypes, user_answer \in UserAnswers,
          correct_answer \in CorrectAnswers :
          fn' = [name |-> "evaluate_answer",
                 pc |-> IF UsesOracle(question_type) THEN "call_kimi"
                        ELSE "returned",
                 question_type |-> question_type,
                 user_answer |-> user_answer,
                 correct_answer |-> correct_answer,
                 oracle_calls |-> <<>>,
                 reply |-> EmptyResponse,
                 oracle |-> "not_called",
                 result |-> IF UsesOracle(question_type) THEN ExceptHandler
                            ELSE evaluate_answer_result(question_type, user_answer,
                                     correct_answer, "not_called")]
    /\ UNCHANGED <<session_vars, ingest_vars>>

Graded(reply) ==
    [fn EXCEPT !.pc = "returned",
               !.reply = reply,
               !.oracle = OracleOutcome(reply),
               !.result = evaluate_answer_result(fn.question_type, fn.user_answer,
                              fn.correct_answer, OracleOutcome(reply))]

\* lines 141-152, and 161-186 when the primary oracle answered
EvalCallKimi ==
    /\ FnAt("evaluate_answer", "call_kimi")
    /\ \E reply \in Responses(EvalDocuments) :
          LET called == [fn EXCEPT !.oracle_calls =
                                     Append(@, OracleCall("primary", reply))]
          IN  fn' = IF NotResponse(reply)
                    THEN [called EXCEPT !.pc = "call_openai"]
                    ELSE [Graded(reply) EXCEPT !.oracle_calls = called.oracle_calls]
    /\ UNCHANGED <<session_vars, ingest_vars>>

\* lines 148-186: the fallback oracle
EvalCallOpenAI ==
    /\ FnAt("evaluate_answer", "call_openai")
    /\ \E reply \in Responses(EvalDocuments) :
          fn' = [Graded(reply) EXCEPT !.oracle_calls =
                                        Append(@, OracleCall("fallback", reply))]
    /\ UNCHANGED <<session_vars, ingest_vars>>

\* ---------------------------------------------- services/retrieval.py
MaxTopK == 2

\* search_vectors without the filter on document_id.
Matching_AnyDocument(document_id) == vectors

\* core/qdrant.py lines 170-177: the points whose payload has the document id.
Matching(document_id) == {v \in vectors : v.document_id = document_id}

\* lines 167-179: the limit nearest of the matching points, nearest first;
\* which are nearest is the index's matter.
QueryPoints(document_id, top_k) ==
    LET matching == Matching(document_id)
        n == Min(top_k, Cardinality(matching))
    IN  {hits \in [1..n -> matching] :
            \A i, j \in 1..n : i # j => hits[i] # hits[j]}

\* lines 182-189
FormatResults(hits) ==
    [i \in 1..Len(hits) |-> [chunk_index |-> hits[i].chunk_index]]

\* retrieval.py lines 24-29: embed the query; no embedding ends the call
\* with [].
retrieve_relevant_chunks ==
    /\ FnFree
    /\ \E d \in 1..(MaxDocuments + 1), top_k \in 1..MaxTopK, embedded \in BOOLEAN :
          fn' = [name |-> "retrieve_relevant_chunks",
                 pc |-> IF embedded THEN "search" ELSE "returned",
                 document_id |-> d,
                 top_k |-> top_k,
                 embedded |-> embedded,
                 searched |-> FALSE,
                 search_raised |-> FALSE,
                 hits |-> <<>>,
                 raised |-> FALSE,
                 result |-> <<>>]
    /\ UNCHANGED <<session_vars, ingest_vars>>

\* retrieval.py lines 31-44 and core/qdrant.py lines 165-195: the search;
\* search_vectors raises again what the index raised and
\* retrieve_relevant_chunks returns [] for it.
search_vectors ==
    /\ FnAt("retrieve_relevant_chunks", "search")
    /\ \/ \E hits \in QueryPoints(fn.document_id, fn.top_k) :
             fn' = [fn EXCEPT !.pc = "returned", !.searched = TRUE,
                              !.hits = hits, !.result = FormatResults(hits)]
       \/ fn' = [fn EXCEPT !.pc = "returned", !.searched = TRUE,
                           !.search_raised = TRUE, !.result = <<>>]
    /\ UNCHANGED <<session_vars, ingest_vars>>

FnNext ==
    \/ get_embeddings
    \/ embeddings_create
    \/ store_vectors
    \/ GenerateQuiz
    \/ QuizCallKimi
    \/ QuizCallOpenAI
    \/ EvaluateAnswer
    \/ EvalCallKimi
    \/ EvalCallOpenAI
    \/ retrieve_relevant_chunks
    \/ search_vectors
    \/ FnReturn

FnSpec == Init /\ [][FnNext]_vars

\* ======================================================== document routes
\* routes/sessions.py create_quiz_session, routes/quiz.py generate_quiz and
\* routes/documents.py search_document: the three routes that work on a
\* document.  Each selects the document by its id and the caller's id, tests
\* its status, and only then calls its service.  The request is in fn.
Routes == {"create_quiz_session", "generate_quiz", "search_document"}

RouteMaxDocuments == 1     \* documents uploaded before the requests
RouteMaxSessions == 1      \* sessions the requests create

\* The select without .eq("user_id", user_id).
SelectDocument_AnyOwner(d, user_id) ==
    IF DocumentExists(d) THEN Some(documents[d]) ELSE None

\* sessions.py lines 50-56, quiz.py lines 40-46, documents.py lines 297-303
SelectDocument(d, user_id) ==
    IF DocumentExists(d) /\ documents[d].user_id = user_id
    THEN Some(documents[d]) ELSE None

\* The status is not looked at.
NotReady_Never(doc) == FALSE

\* sessions.py line 67, quiz.py line 57, documents.py line 314
NotReady(doc) == doc.status # "ready"

RouteCall(route, user_id, d, n) ==
    [name |-> route, pc |-> "invoke", user_id |-> user_id, document_id |-> d,
     num_questions |-> n, invoked |-> FALSE, status_code |-> 0, detail |-> ""]

HTTPException(call, status_code, detail) ==
    [call EXCEPT !.pc = "returned", !.status_code = status_code,
                 !.detail = detail]

\* sessions.py lines 48-71, quiz.py lines 38-61, documents.py lines 295-318:
\* no record gives 404, a record that is not ready gives 400 with its
\* status, a select that raises gives 500.  A request for a session names
\* the number of questions it wants and is taken when there is room for them.
CheckDocument(route) ==
    /\ FnFree
    /\ response = NoResponse
    /\ \E user_id \in Users, d \in DocumentIds, n \in 0..MaxQuestions :
          LET call == RouteCall(route, user_id, d, n)
              found == SelectDocument(d, user_id)
          IN  /\ route = "create_quiz_session" =>
                    /\ Len(quiz_sessions) < RouteMaxSessions
                    /\ Len(questions) + PendingRows + n <= MaxQuestionRows
              /\ route # "create_quiz_session" => n = 1
              /\ \/ fn' = IF found = None
                          THEN HTTPException(call, 404, "Document not found")
                          ELSE IF NotReady(Val(found))
                          THEN HTTPException(call, 400, Val(found).status)
                          ELSE call
                 \/ fn' = HTTPException(call, 500, "Exception")
    /\ UNCHANGED <<session_vars, ingest_vars>>

\* sessions.py lines 73-82: create_session, which calls the generator and
\* inserts the session; its response is the route's.
InvokeCreateSession ==
    /\ FnAt("create_quiz_session", "invoke")
    /\ \E c \in Calls : InsertSession(c, fn.user_id, fn.num_questions)
    /\ fn' = [fn EXCEPT !.pc = "returned", !.invoked = TRUE]
    /\ UNCHANGED ingest_vars

\* quiz.py lines 66-98: the generator; no question gives 500.
InvokeGenerateQuiz ==
    /\ FnAt("generate_quiz", "invoke")
    /\ \E generated \in BOOLEAN :
          fn' = [fn EXCEPT !.pc = "returned", !.invoked = TRUE,
                           !.status_code = IF generated THEN 200 ELSE 500]
    /\ UNCHANGED <<session_vars, ingest_vars>>

\* documents.py lines 320-341: the retrieval, whose result is returned.
InvokeSearch ==
    /\ FnAt("search_document", "invoke")
    /\ fn' = [fn EXCEPT !.pc = "returned", !.invoked = TRUE,
                        !.status_code = 200]
    /\ UNCHANGED <<session_vars, ingest_vars>>

\* Documents are ingested while no request to a route is being served and
\* before the first session is stored.
Ingesting ==
    /\ FnFree
    /\ quiz_sessions = <<>>
    /\ Len(documents) <= RouteMaxDocuments
    /\ UNCHANGED <<session_vars, fn>>

RouteNext ==
    \/ upload_document /\ Len(documents) < RouteMaxDocuments /\ Ingesting
    \/ process_document /\ Ingesting
    \/ FetchDocument /\ Ingesting
    \/ DownloadFile /\ Ingesting
    \/ ExtractText /\ Ingesting
    \/ ChunkText /\ Ingesting
    \/ GenerateEmbeddings /\ Ingesting
    \/ StoreVectors /\ Ingesting
    \/ SaveChunks /\ Ingesting
    \/ MarkReady /\ Ingesting
    \/ mark_document_failed /\ Ingesting
    \/ \E route \in Routes : CheckDocument(route)
    \/ InvokeCreateSession
    \/ InvokeGenerateQuiz
    \/ InvokeSearch
    \/ \E c \in Calls : InsertQuestions(c) /\ UNCHANGED <<ingest_vars, fn>>
    \/ Deliver /\ UNCHANGED <<ingest_vars, fn>>
    \/ FnReturn

RouteSpec == Init /\ [][RouteNext]_vars

\* ================================================================== claims
Sessions == 1..Len(quiz_sessions)
Questions == 1..Len(questions)

Answered(q) == questions[q].user_answer # None

\* The question call c names is a row of the session it names, already
\* answered.
TargetAnswered(c) ==
    /\ calls[c].question_id \in SessionQuestions(calls[c].session_id)
    /\ Answered(calls[c].question_id)

ValidationError(detail) ==
    [op |-> "submit_answer", kind |-> "ValueError", detail |-> detail,
     status_code |-> 400]

Rejected(request, detail) == response' = [request |-> request] @@ ValidationError(detail)

NoWrite == UNCHANGED <<quiz_sessions, questions>>

\* C1: a submit_answer that reads the question it names as already answered
\* is rejected with the validation error "Question already answered" (HTTP
\* 400) and writes nothing: the session's counters and status and the
\* question's four answer fields stay as they were.
C1_AnsweredQuestionRejected ==
    [][\A c \in Calls :
         (SubmitFetchQuestion(c) /\ TargetAnswered(c)) =>
            /\ Rejected(RequestOf(c), "Question already answered")
            /\ NoWrite]_vars

\* A resubmission was rejected and the first answer is still in place.
C1_Witness ==
    /\ response.op = "submit_answer"
    /\ response.detail = "Question already answered"
    /\ response.status_code = 400
    /\ Answered(response.request.question_id)

\* C2: the answer fields of a question go from unset to set once and are never
\* overwritten, whatever the interleaving of the submit_answer calls naming
\* it.
C2_AnsweredExactlyOnce ==
    [][\A q \in Questions : Answered(q) => questions'[q] = questions[q]]_vars

\* C3: in every reachable state answered_questions <= total_questions and
\* correct_answers <= answered_questions.
C3_CountersBounded ==
    \A s \in Sessions :
        /\ quiz_sessions[s].answered_questions <= quiz_sessions[s].total_questions
        /\ quiz_sessions[s].correct_answers <= quiz_sessions[s].answered_questions

\* Both bounds are met with equality by a session of two questions.
C3_Witness ==
    \E s \in Sessions :
        /\ quiz_sessions[s].total_questions = 2
        /\ quiz_sessions[s].answered_questions = 2
        /\ quiz_sessions[s].correct_answers = 2

\* C4: in every reachable state status = completed exactly when
\* answered_questions = total_questions.
C4_CompletedIffAllCounted ==
    \A s \in Sessions :
        (quiz_sessions[s].status = "completed")
            <=> (quiz_sessions[s].answered_questions
                    = quiz_sessions[s].total_questions)

\* C5: the session write of a submit_answer that brings answered_questions to
\* total_questions sets status = completed and stamps completed_at in that
\* same write; the session that submission read was active with completed_at
\* unset; and status becomes completed in no other step, from a row that is
\* active with completed_at unset.
C5_CompletionBySubmission ==
    [][/\ \A c \in Calls :
            LET s == calls[c].session_id
            IN  (SubmitUpdateSession(c)
                 /\ quiz_sessions'[s].answered_questions
                       = quiz_sessions'[s].total_questions) =>
                    /\ quiz_sessions'[s].status = "completed"
                    /\ quiz_sessions'[s].completed_at = Some(calls[c].now)
                    /\ Val(calls[c].session).status = "active"
                    /\ Val(calls[c].session).completed_at = None
       /\ \A s \in Sessions :
            (quiz_sessions[s].status # "completed"
             /\ quiz_sessions'[s].status = "completed") =>
                /\ quiz_sessions[s].status = "active"
                /\ quiz_sessions[s].completed_at = None
                /\ quiz_sessions'[s].completed_at # None
                /\ quiz_sessions'[s].answered_questions
                      = quiz_sessions'[s].total_questions
                /\ \E c \in Calls :
                      SubmitUpdateSession(c) /\ calls[c].session_id = s]_vars

\* The last submission of a session of two has just completed it.
C5_Witness ==
    /\ response.op = "submit_answer"
    /\ response.kind = "ok"
    /\ response.session_complete
    /\ response.total_answered = 2
    /\ quiz_sessions[response.request.session_id].status = "completed"
    /\ quiz_sessions[response.request.session_id].completed_at # None

\* Every question of session s is there and answered.
AllAnswered(s) ==
    /\ Cardinality(SessionQuestions(s)) = quiz_sessions[s].total_questions
    /\ \A q \in SessionQuestions(s) : Answered(q)

GradedCorrect(s) ==
    Cardinality({q \in SessionQuestions(s) : questions[q].is_correct = Some(TRUE)})

\* r tenths of a percent is 100 * correct / total rounded to one decimal.
IsRoundedScore(r, correct, total) ==
    /\ 2 * (r * total - 1000 * correct) <= total
    /\ 2 * (1000 * correct - r * total) <= total

\* C6: once the N questions of a session have been answered one at a time,
\* answered_questions = N, correct_answers = the number of submissions graded
\* correct and status = completed, and get_session reports score_percentage =
\* 100 * correct_answers / total_questions rounded to one decimal: 50.0 for
\* one correct answer out of two, 100.0 for three out of three.
C6_FinalScore ==
    /\ \A s \in Sessions :
          (NoneInFlight /\ AllAnswered(s)) =>
              /\ quiz_sessions[s].answered_questions = quiz_sessions[s].total_questions
              /\ quiz_sessions[s].correct_answers = GradedCorrect(s)
              /\ quiz_sessions[s].status = "completed"
    /\ (response.op = "get_session" /\ response.kind = "ok"
        /\ AllAnswered(response.request.session_id)) =>
          /\ response.status = "completed"
          /\ response.correct_answers = GradedCorrect(response.request.session_id)
          /\ response.score_percentage # None
          /\ IsRoundedScore(Val(response.score_percentage),
                            response.correct_answers, response.total_questions)
          /\ (response.total_questions = 2 /\ response.correct_answers = 1)
                => response.score_percentage = Some(500)
          /\ (response.total_questions = 3 /\ response.correct_answers = 3)
                => response.score_percentage = Some(1000)

\* Question 1 answered wrongly, then question 2 rightly: get_session reports
\* 50.0.
C6_Witness ==
    /\ response.op = "get_session"
    /\ response.kind = "ok"
    /\ response.status = "completed"
    /\ response.total_questions = 2
    /\ response.questions[1].is_correct = Some(FALSE)
    /\ response.questions[2].is_correct = Some(TRUE)
    /\ questions[response.questions[1].question_id].answered_at
          = Some(Val(questions[response.questions[2].question_id].answered_at) - 1)
    /\ response.score_percentage = Some(500)

LowerUnanswered(q) ==
    {r \in SessionQuestions(questions[q].session_id) :
        /\ questions[r].question_number < questions[q].question_number
        /\ ~Answered(r)}

BecomesAnswered(q) == ~Answered(q) /\ questions'[q].user_answer # None

\* C7: a question becomes answered only when every question of its session
\* with a lower question_number is already answered.
C7_StrictlySequential ==
    [][\A q \in Questions : BecomesAnswered(q) => LowerUnanswered(q) = {}]_vars

\* C7 as amended: a question becomes answered only by the question write of
\* a submit_answer that named its id and the id of its session, read that
\* session as active and read the question as unanswered, and it gets that
\* call's answer; questions with a lower number may still be unanswered.
C7_AnsweredOnlyBySubmission ==
    [][\A q \in Questions :
         BecomesAnswered(q) =>
            \E c \in Calls :
                /\ SubmitUpdateQuestion(c)
                /\ calls[c].question_id = q
                /\ calls[c].session_id = questions[q].session_id
                /\ Val(calls[c].session).status = "active"
                /\ Val(calls[c].question).user_answer = None
                /\ questions'[q].user_answer = Some(calls[c].answer)]_vars

\* Question 2 of a session is answered while its question 1 is not.
C7_Witness ==
    \E q \in Questions :
        /\ Answered(q)
        /\ questions[q].question_number = 2
        /\ LowerUnanswered(q) # {}

Unanswered(s) == {q \in SessionQuestions(s) : ~Answered(q)}

\* q is the unanswered question of session s with the lowest number.
IsLowestUnanswered(q, s) ==
    /\ q \in Unanswered(s)
    /\ \A r \in Unanswered(s) :
          questions[q].question_number <= questions[r].question_number

OwnedBy(sid, uid) == sid \in Sessions /\ quiz_sessions[sid].user_id = uid

\* C8: get_current_question returns None when the session does not exist for
\* that user or is not active, and otherwise the unanswered question of the
\* session with the lowest question_number, None when there is none.
C8_CurrentIsLowestUnanswered ==
    [][\A c \in Calls :
         /\ \A sid \in SessionIds, uid \in Users :
              CurrentSelectSession(c, sid, uid) =>
                 IF ~OwnedBy(sid, uid) \/ quiz_sessions[sid].status # "active"
                 THEN /\ response'.op = "get_current_question"
                      /\ response'.kind = "None"
                 ELSE response' = NoResponse
         /\ CurrentNextQuestion(c) =>
              /\ response'.op = "get_current_question"
              /\ IF Unanswered(calls[c].session_id) = {}
                 THEN response'.kind = "None"
                 ELSE /\ response'.kind = "ok"
                      /\ IsLowestUnanswered(response'.question.question_id,
                                            calls[c].session_id)
                      /\ response'.question.question_number
                           = questions[response'.question.question_id].question_number]_vars

\* get_current_question returned question 1 of a session of two, both
\* unanswered.
C8_Witness ==
    /\ response.op = "get_current_question"
    /\ response.kind = "ok"
    /\ response.question.question_number = 1
    /\ Cardinality(Unanswered(response.request.session_id)) = 2

\* The session write of call c stamps the completion of its session.
CompletesSession(c) ==
    LET s == calls[c].session_id
    IN  /\ quiz_sessions'[s].status = "completed"
        /\ quiz_sessions'[s].completed_at = Some(calls[c].now)

MissingOutcome(op) ==
    IF op = "submit_answer" THEN ValidationError("Session not found")
    ELSE NoneResult(op)

\* uid asks for a session that exists and belongs to somebody else.
Foreign(sid, uid) == sid \in Sessions /\ quiz_sessions[sid].user_id # uid

\* C11: get_session, get_current_question and submit_answer give, for a
\* session owned by another user, the very outcome they give for a session id
\* that does not exist (None, or the 'Session not found' error for
\* submit_answer), and they change no session and no question.
C11_ForeignSessionLooksMissing ==
    [][\A c \in Calls, sid \in SessionIds, uid \in Users :
         (Foreign(sid, uid) \/ sid \notin Sessions) =>
            /\ GetSelectSession(c, sid, uid) =>
                 /\ response' = [request |-> Request(sid, uid, 0)]
                                   @@ MissingOutcome("get_session")
                 /\ NoWrite
            /\ CurrentSelectSession(c, sid, uid) =>
                 /\ response' = [request |-> Request(sid, uid, 0)]
                                   @@ MissingOutcome("get_current_question")
                 /\ NoWrite
            /\ SubmitSelectSession(c, sid, uid) =>
                 /\ response' = [request |-> Request(sid, uid, 0)]
                                   @@ MissingOutcome("submit_answer")
                 /\ NoWrite]_vars

\* A user was told 'Session not found' for another user's active session.
C11_Witness ==
    /\ response.op = "submit_answer"
    /\ response.detail = "Session not found"
    /\ Foreign(response.request.session_id, response.request.user_id)
    /\ quiz_sessions[response.request.session_id].status = "active"

\* C12: get_session reports a score_percentage only for a session whose
\* status is completed; for an active session it reports None, whatever the
\* counters are.
C12_ScoreOnlyWhenCompleted ==
    (response.op = "get_session" /\ response.kind = "ok") =>
        /\ response.score_percentage # None =>
              /\ response.status = "completed"
              /\ quiz_sessions[response.request.session_id].status = "completed"
        /\ response.status = "active" => response.score_percentage = None

\* get_session reported no score for an active session that already has a
\* correct answer counted.
C12_Witness ==
    /\ response.op = "get_session"
    /\ response.kind = "ok"
    /\ response.status = "active"
    /\ response.correct_answers >= 1
    /\ response.score_percentage = None

GenerationError ==
    [op |-> "create_session", kind |-> "ValueError",
     detail |-> "Failed to generate quiz questions", status_code |-> 500]

\* C13: when the quiz generator returns an empty list, create_session fails
\* with the generation-failed error and inserts neither a quiz_sessions row
\* nor a questions row.
C13_EmptyGenerationCreatesNothing ==
    [][\A c \in Calls, uid \in Users, n \in 0..MaxQuestions :
         (InsertSession(c, uid, n) /\ generate_quiz_questions(n) = <<>>) =>
            /\ response' = [request |-> Request(0, uid, 0)] @@ GenerationError
            /\ calls'[c] = IdleCall
            /\ NoWrite]_vars

\* create_session failed on an empty generation while a session of an
\* earlier, successful call exists.
C13_Witness ==
    /\ response.op = "create_session"
    /\ response.detail = "Failed to generate quiz questions"
    /\ Len(quiz_sessions) = 1
    /\ Cardinality(SessionQuestions(1)) = quiz_sessions[1].total_questions

\* Session s has its full question set: total_questions questions, numbered
\* 1..total_questions.
FullQuestionSet(s) ==
    /\ Cardinality(SessionQuestions(s)) = quiz_sessions[s].total_questions
    /\ {questions[q].question_number : q \in SessionQuestions(s)}
          = 1..quiz_sessions[s].total_questions

\* A create_session call is still between its two inserts for session s.
BeingCreated(s) ==
    \E c \in Calls : calls[c].op = "create_session" /\ calls[c].session_id = s

\* C14: session creation is atomic: every persisted session, also after a
\* create_session call that failed part-way, has exactly total_questions
\* persisted questions numbered 1..total_questions (stated here for the
\* sessions no running create_session call is still writing).
C14_CreationAtomic ==
    \A s \in Sessions : ~BeingCreated(s) => FullQuestionSet(s)

\* Row q is the i-th generated question of session s, unanswered.
FreshQuestion(q, s, i, generated) ==
    /\ questions'[q].session_id = s
    /\ questions'[q].question_number = i
    /\ questions'[q].question_type = generated[i].question_type
    /\ questions'[q].correct_answer = generated[i].correct_answer
    /\ questions'[q].user_answer = None
    /\ questions'[q].is_correct = None
    /\ questions'[q].input_method = None
    /\ questions'[q].answered_at = None

\* C15: a successful create_session has persisted a session with status
\* active, both counters 0, completed_at unset and total_questions = the
\* number N of generated questions, has persisted those questions for it with
\* question_number 1..N in generation order and every answer field unset, and
\* returns as first_question the question with question_number 1.
C15_CreatedSessionIsFresh ==
    [][\A c \in Calls :
         InsertQuestions(c) =>
            LET s == calls[c].session_id
                generated == generate_quiz_questions(calls[c].num)
                N == Len(generated)
            IN  /\ response'.op = "create_session" /\ response'.kind = "ok"
                /\ response'.session_id = s
                /\ response'.total_questions = N
                /\ N >= 1
                /\ quiz_sessions'[s] = [user_id            |-> calls[c].user_id,
                                        status             |-> "active",
                                        total_questions    |-> N,
                                        answered_questions |-> 0,
                                        correct_answers    |-> 0,
                                        completed_at       |-> None]
                /\ Len(questions') = Len(questions) + N
                /\ \A q \in 1..Len(questions) :
                      questions'[q] = questions[q] /\ questions[q].session_id # s
                /\ \A i \in 1..N : FreshQuestion(Len(questions) + i, s, i, generated)
                /\ response'.first_question # None
                /\ Val(response'.first_question).question_number = 1
                /\ Val(response'.first_question).total_questions = N
                /\ FreshQuestion(Val(response'.first_question).question_id,
                                 s, 1, generated)]_vars

\* A session was created with two questions: first_question is the row
\* numbered 1, the row after it is numbered 2, both unanswered.
C15_Witness ==
    /\ response.op = "create_session"
    /\ response.kind = "ok"
    /\ response.total_questions = 2
    /\ questions[Val(response.first_question).question_id].question_number = 1
    /\ questions[Val(response.first_question).question_id + 1].question_number = 2
    /\ \A q \in SessionQuestions(response.session_id) : ~Answered(q)

Documents == 1..Len(documents)

\* The run found the record of its document (line 46).
RecordFound == run.file_type # ""

RunOver == run.pc = "done"

StatusOf(d) == documents[d].status

\* C16: a document's status only moves pending -> processing -> ready or
\* failed, and ready and failed are final: once a document is ready or
\* failed no process_document run changes its status again.
C16_StatusOnlyMovesForward ==
    [][\A d \in Documents :
         documents'[d].status # documents[d].status =>
            <<documents[d].status, documents'[d].status>> \in
                {<<"pending", "processing">>,
                 <<"processing", "ready">>,
                 <<"processing", "failed">>}]_vars

\* C17: every process_document run that found the record of its document
\* ends with the document ready or failed, whatever step failed or raised.
C17_NeverLeftProcessing ==
    (RunOver /\ RecordFound) =>
        StatusOf(run.document_id) \in {"ready", "failed"}

\* C17 as amended: a run that found its record ends with the document ready
\* (the ready write was made), failed with the reason of the failing step
\* (the failed write was made), or still processing, and this only when the
\* status write itself raised: the ready write of lines 147-156 or the failed
\* write of _mark_document_failed, both logged and not retried.
C17_EndsReadyOrFailedUnlessWriteFails ==
    (RunOver /\ RecordFound) =>
        LET doc == documents[run.document_id]
        IN  /\ run.outcome \in {"ready", "failed",
                               "ready_write_failed", "failed_write_failed"}
            /\ run.outcome = "ready" => doc.status = "ready"
            /\ run.outcome = "failed" =>
                  /\ doc.status = "failed"
                  /\ doc.error_message = Some(run.error_message)
            /\ run.outcome \in {"ready_write_failed", "failed_write_failed"} =>
                  doc.status = "processing"

\* The ready write failed after the chunks were saved: the document stays
\* processing.
C17_Witness ==
    /\ RunOver
    /\ RecordFound
    /\ run.outcome = "ready_write_failed"
    /\ StatusOf(run.document_id) = "processing"
    /\ \E i \in 1..Len(chunks) : chunks[i].document_id = run.document_id

ChunksOf(d) == {i \in 1..Len(chunks) : chunks[i].document_id = d}
VectorsOf(d) == {v \in vectors : v.document_id = d}

\* The run ended on the failure of its download.
DownloadFailedRun ==
    RunOver /\ run.error_message = "Failed to download file"

\* C18: when the storage download fails, process_document ends with status
\* failed and the download-specific error_message, and the document has no
\* Chunk record and no vector point.
C18_DownloadFailureMarksFailed ==
    DownloadFailedRun =>
        /\ StatusOf(run.document_id) = "failed"
        /\ documents[run.document_id].error_message
              = Some("Failed to download file")
        /\ ChunksOf(run.document_id) = {}
        /\ VectorsOf(run.document_id) = {}

\* C18 as amended: when the storage download fails the run stores no chunk
\* and no vector, makes no further step but the failed write with the
\* download-specific reason, and ends with status = failed and that reason
\* unless that write itself raises, which leaves the document as it was
\* (processing).
C18_DownloadFailureStopsRun ==
    [][/\ (RunAt("download") /\ run' # run) =>
            /\ run'.pc \in {"extract", "mark_failed"}
            /\ run'.pc = "mark_failed" =>
                  run'.error_message = "Failed to download file"
            /\ UNCHANGED <<documents, chunks, vectors>>
       /\ run'.pc \in {"fetch", "download"} => UNCHANGED <<chunks, vectors>>
       /\ (RunAt("mark_failed") /\ run' # run
           /\ run.error_message = "Failed to download file") =>
            /\ run'.pc = "done"
            /\ UNCHANGED <<chunks, vectors>>
            /\ StatusOf(run.document_id) = "processing"
            /\ \/ /\ run'.outcome = "failed"
                  /\ documents'[run.document_id].status = "failed"
                  /\ documents'[run.document_id].error_message
                        = Some("Failed to download file")
               \/ /\ run'.outcome = "failed_write_failed"
                  /\ UNCHANGED documents]_vars

\* The download of a document failed on its first run: it is failed with
\* the download reason and has neither chunks nor vectors.
C18_Witness ==
    /\ DownloadFailedRun
    /\ run.outcome = "failed"
    /\ StatusOf(run.document_id) = "failed"
    /\ documents[run.document_id].error_message = Some("Failed to download file")
    /\ ChunksOf(run.document_id) = {}
    /\ VectorsOf(run.document_id) = {}

\* The steps of a run after the record is loaded, in order.
Steps == <<"download", "extract", "chunk", "embed", "store", "save">>

StepNumber(pc) == CHOOSE i \in 1..Len(Steps) : Steps[i] = pc

\* The reasons process_document gives when a step fails.
StepReasons(pc) ==
    CASE pc = "download" -> {"Failed to download file"}
      [] pc = "extract"  -> {"Unsupported file type", "Text extraction failed",
                             "No text could be extracted from the document"}
      [] pc = "chunk"    -> {"Failed to create text chunks", "Text chunking failed"}
      [] pc = "embed"    -> {"Failed to generate embeddings",
                             "Embedding generation failed"}
      [] pc = "store"    -> {"Vector storage failed"}
      [] pc = "save"     -> {"Failed to save chunks"}

\* The step whose failure gave the reason.
FailedStep(reason) ==
    CHOOSE i \in 1..Len(Steps) : reason \in StepReasons(Steps[i])

StepFailedRun ==
    RunOver /\ \E i \in 1..Len(Steps) : run.error_message \in StepReasons(Steps[i])

\* C19: each ingestion step that fails sets status = failed with a reason
\* specific to that step and stops the run, so that a failure before the
\* vector upsert has stored no vectors and a failure before chunk persistence
\* no Chunk records.
C19_StepFailureMarksFailed ==
    StepFailedRun =>
        LET d == run.document_id
        IN  /\ StatusOf(d) = "failed"
            /\ documents[d].error_message = Some(run.error_message)
            /\ FailedStep(run.error_message) < StepNumber("store") =>
                  VectorsOf(d) = {}
            /\ FailedStep(run.error_message) < StepNumber("save") =>
                  ChunksOf(d) = {}

\* C19 as amended: each ingestion step that fails stops the run: the only
\* step left is the failed write with a reason that names the step (no two
\* steps share a reason); that write sets status = failed and the reason
\* unless it raises itself, which leaves the record as it was.  Vectors are
\* stored only by the upsert step and Chunk records only by the persistence
\* step, each only when it succeeds, and a step goes on to the next one only
\* with a non-empty result.
C19_StepFailureStopsRun ==
    [][/\ \A i \in 1..Len(Steps) :
            (RunAt(Steps[i]) /\ run' # run) =>
               \/ /\ run'.pc = "mark_failed"
                  /\ run'.error_message \in StepReasons(Steps[i])
                  /\ UNCHANGED <<documents, chunks, vectors>>
               \/ /\ run'.pc \in (IF i < Len(Steps) THEN {Steps[i + 1]}
                                  ELSE {"save", "mark_ready"})
                  /\ run'.error_message = ""
                  /\ run'.chunks # <<>> \/ i < StepNumber("chunk")
                  /\ run'.embeddings = Len(run'.chunks) \/ i < StepNumber("embed")
                  /\ Len(run'.point_ids) = Len(run'.chunks) \/ i < StepNumber("store")
                  /\ UNCHANGED documents
       /\ vectors' # vectors => RunAt("store") /\ run'.pc = "save"
       /\ chunks' # chunks => RunAt("save") /\ run'.pc \in {"save", "mark_ready"}
       /\ (RunAt("mark_failed") /\ run' # run) =>
            /\ run'.pc = "done"
            /\ UNCHANGED <<chunks, vectors>>
            /\ \/ /\ run'.outcome = "failed"
                  /\ DocumentExists(run.document_id) =>
                        /\ documents'[run.document_id].status = "failed"
                        /\ documents'[run.document_id].error_message
                              = Some(run.error_message)
               \/ /\ run'.outcome = "failed_write_failed"
                  /\ UNCHANGED documents
       /\ \A i, j \in 1..Len(Steps) :
            i # j => StepReasons(Steps[i]) \cap StepReasons(Steps[j]) = {}]_vars

\* Chunk persistence failed after the upsert: the document is failed with
\* that step's reason, its vectors are stored and it has no Chunk record.
C19_Witness ==
    /\ RunOver
    /\ run.error_message = "Failed to save chunks"
    /\ run.outcome = "failed"
    /\ StatusOf(run.document_id) = "failed"
    /\ documents[run.document_id].error_message = Some("Failed to save chunks")
    /\ VectorsOf(run.document_id) # {}
    /\ ChunksOf(run.document_id) = {}

\* C20: process_document invoked with a document id that has no record
\* returns without changing any state: no document record is created or
\* marked failed, and it fetches no blob, upserts no vector and inserts no
\* chunk.
C20_MissingDocumentNoEffect ==
    [][(run' # run /\ ~DocumentExists(run'.document_id)) =>
          /\ UNCHANGED <<documents, chunks, vectors>>
          /\ run'.pc \in {"fetch", "mark_failed", "done"}
          /\ run'.pc = "done" =>
                run'.outcome \in {"not_found", "failed", "failed_write_failed"}
          /\ (RunAt("fetch") /\ run'.pc # "mark_failed") =>
                run'.pc = "done" /\ run'.outcome = "not_found"]_vars

\* A run for an id without a record is over while another document, not
\* yet processed, is still pending.
C20_Witness ==
    /\ RunOver
    /\ run.outcome = "not_found"
    /\ ~DocumentExists(run.document_id)
    /\ \E d \in Documents : StatusOf(d) = "pending"

ChunkIndexes(d) == {chunks[i].chunk_index : i \in ChunksOf(d)}

\* The Chunk records of document d carry the ordinals 0..n-1, each once.
DenseOrdinals(d) ==
    /\ Cardinality(ChunkIndexes(d)) = Cardinality(ChunksOf(d))
    /\ ChunkIndexes(d) = 0..(Cardinality(ChunksOf(d)) - 1)

\* C21: in every reachable state the chunk_index values of the Chunk records
\* of one document are pairwise distinct and form 0..n-1, and no Chunk record
\* is added to a document that already has some.
C21_ChunkOrdinalsDense ==
    [][\A d \in Documents :
         /\ DenseOrdinals(d)'
         /\ ChunksOf(d) # {} => ChunksOf(d)' = ChunksOf(d)]_vars

\* C22: the chunks chunk_text returns are numbered 0, 1, ..., k-1 in order
\* over the segments that survive the blank filter, with no gap where a
\* blank segment was dropped.
C22_ChunkTextIndexesDense ==
    \A i \in 1..Len(run.chunks) : run.chunks[i].chunk_index = i - 1

RECURSIVE Concat(_)
Concat(lists) == IF lists = <<>> THEN <<>> ELSE Head(lists) \o Concat(Tail(lists))

NonBlankTexts == \A i \in 1..Len(fn.texts) : fn.texts[i] # 0

EmbeddedAll ==
    /\ fn.name = "get_embeddings"
    /\ fn.pc = "returned"
    /\ ~fn.oracle_failed
    /\ NonBlankTexts

\* C23: for n non-blank texts and an oracle that never fails, get_embeddings
\* calls the oracle ceil(n/100) times, with batches of at most 100 texts that
\* are the input cut in order, and returns the n vectors in input order.
C23_EmbeddingBatches ==
    EmbeddedAll =>
        /\ Len(fn.oracle_calls) = (Len(fn.texts) + 99) \div 100
        /\ \A k \in 1..Len(fn.oracle_calls) : Len(fn.oracle_calls[k]) <= 100
        /\ Concat(fn.oracle_calls) = fn.texts
        /\ fn.result = [i \in 1..Len(fn.texts) |-> Embedding(fn.texts[i])]

C23_Witness ==
    /\ EmbeddedAll
    /\ Len(fn.texts) = 250
    /\ Len(fn.oracle_calls) = 3
    /\ Len(fn.result) = 250

\* C24: store_vectors given chunk and embedding lists of different lengths
\* fails with the length-mismatch error and upserts no point, also when
\* exactly one of the two lists is empty.
C24_MismatchedLengthsRejected ==
    [][(/\ fn.pc = "idle"
        /\ fn'.name = "store_vectors"
        /\ Len(fn'.chunks) # fn'.embeddings)
       => (fn'.raised = "ValueError" /\ vectors' = vectors)]_vars

QuizReturned == fn.name = "generate_quiz_questions" /\ fn.pc = "returned"

\* The JSON array the oracle wrote, when json.loads gives one.
ProducedArray ==
    /\ fn.oracle_calls # <<>>
    /\ ~fn.oracle_calls[Len(fn.oracle_calls)].empty
    /\ clean_response(fn.reply.text) = <<"@">>
    /\ fn.reply.doc.kind = "array"

\* C25: generate_quiz_questions returns at most num_questions elements, each
\* an object with both question_type and question_text, in the order the
\* oracle produced them; it returns the empty list when retrieval found no
\* chunk, both oracles returned nothing, the response is not JSON or the
\* document is not an array.
C25_QuestionsValidOrderedBounded ==
    QuizReturned =>
        /\ Len(fn.result) <= fn.num_questions
        /\ \A i \in 1..Len(fn.result) :
              /\ fn.result[i].is_dict
              /\ {"question_text", "question_type"} \subseteq fn.result[i].keys
              /\ ProducedArray
              /\ fn.result[i] = fn.reply.doc.items[fn.result[i].position]
        /\ \A i, j \in 1..Len(fn.result) :
              i < j => fn.result[i].position < fn.result[j].position
        /\ (~fn.retrieved \/ ~ProducedArray) => fn.result = <<>>

\* Three elements come back of which the first lacks question_type; the two
\* others are returned in their order.
C25_Witness ==
    /\ QuizReturned
    /\ ProducedArray
    /\ fn.num_questions = 2
    /\ Len(fn.reply.doc.items) = 3
    /\ fn.reply.doc.items[1].keys = {"question_text"}
    /\ Len(fn.result) = 2
    /\ fn.result[1].position = 2
    /\ fn.result[2].position = 3

UsesOracles == fn.name \in {"generate_quiz_questions", "evaluate_answer"}

\* C26: quiz generation and free-text grading each issue at most one call to
\* the primary oracle and then at most one to the fallback oracle, the
\* latter only after the primary returned an empty response.
C26_OneFallbackAfterEmptyPrimary ==
    UsesOracles =>
        /\ Len(fn.oracle_calls) <= 2
        /\ Len(fn.oracle_calls) >= 1 => fn.oracle_calls[1].oracle = "primary"
        /\ Len(fn.oracle_calls) = 2 =>
              /\ fn.oracle_calls[2].oracle = "fallback"
              /\ fn.oracle_calls[1].empty

\* A grading in which the fallback oracle answered after the primary did not.
C26_Witness ==
    /\ fn.name = "evaluate_answer"
    /\ fn.pc = "returned"
    /\ Len(fn.oracle_calls) = 2
    /\ fn.oracle_calls[1].empty
    /\ ~fn.oracle_calls[2].empty

EvalReturned == fn.name = "evaluate_answer" /\ fn.pc = "returned"

\* C27: evaluate_answer never raises and always returns a verdict with
\* is_correct and feedback, for every question type, every answer and every
\* oracle outcome.
C27_AlwaysAVerdict ==
    EvalReturned =>
        /\ ~fn.result.raised
        /\ {"is_correct", "feedback"} \subseteq DOMAIN fn.result
        /\ fn.result.feedback # ""

\* A free-text grading in which the oracle wrote JSON that is not an object.
C27_Witness ==
    /\ EvalReturned
    /\ UsesOracle(fn.question_type)
    /\ fn.oracle_calls # <<>>
    /\ clean_response(fn.reply.text) = <<"@">>
    /\ fn.reply.doc.kind = "array"
    /\ ~fn.result.raised
    /\ ~fn.result.is_correct

FreeTextReturned == EvalReturned /\ UsesOracle(fn.question_type)

BothOraclesFailed ==
    /\ Len(fn.oracle_calls) = 2
    /\ fn.oracle_calls[1].empty
    /\ fn.oracle_calls[2].empty

OracleResponded ==
    /\ fn.oracle_calls # <<>>
    /\ ~fn.oracle_calls[Len(fn.oracle_calls)].empty

IsJson == clean_response(fn.reply.text) = <<"@">>

BackstopVerdict ==
    (FreeTextReturned /\ BothOraclesFailed) =>
        fn.result.is_correct = ~(Len(Strip(fn.user_answer)) < 10)

CorrectWithDisclaimer ==
    /\ fn.result.is_correct
    /\ fn.result.feedback = "Answer received. (Evaluation parsing failed)"

\* C28: for free_text questions, when both oracles fail the verdict is
\* incorrect for a trimmed answer of fewer than 10 characters and correct
\* otherwise; when an oracle responds with anything that is not the expected
\* JSON verdict object, the verdict is correct with the parse-failure
\* disclaimer.
C28_LenientOnAnyUnexpectedResponse ==
    /\ BackstopVerdict
    /\ (FreeTextReturned /\ OracleResponded
            /\ ~(IsJson /\ fn.reply.doc.kind = "object"))
         => CorrectWithDisclaimer

\* C28 as the code has it: the parse-failure verdict is for a response that
\* is not JSON; a response that is JSON but not an object is graded incorrect
\* with the could-not-evaluate feedback.
C28_LenientOnJsonDecodeError ==
    /\ BackstopVerdict
    /\ (FreeTextReturned /\ OracleResponded /\ ~IsJson) => CorrectWithDisclaimer
    /\ (FreeTextReturned /\ OracleResponded /\ IsJson
            /\ fn.reply.doc.kind # "object")
         => /\ ~fn.result.is_correct
            /\ fn.result.feedback = "Could not evaluate answer. Please try again."

\* Both oracles failed on an answer of 11 characters of which 9 are left
\* after trimming.
C28_Witness ==
    /\ FreeTextReturned
    /\ BothOraclesFailed
    /\ Len(fn.user_answer) = 11
    /\ Len(Strip(fn.user_answer)) = 9
    /\ ~fn.result.is_correct

McqReturned ==
    /\ EvalReturned
    /\ Lower(fn.question_type) = <<"m", "c", "q">>

IsUpperLetter(s) == Len(s) = 1 /\ \E i \in 1..26 : UpperLetters[i] = s[1]

\* What is left of an answer: trimmed, in upper case, and cut back to its
\* first character when the second is ')', '.' or a space.
OptionLabel(answer) ==
    LET s == Upper(Strip(answer))
    IN  IF Len(s) >= 2 /\ s[2] \in {")", ".", " "} THEN SubSeq(s, 1, 1) ELSE s

TrueFalseReturned ==
    /\ EvalReturned
    /\ Lower(fn.question_type) \in { <<"t","r","u","e","_","f","a","l","s","e">>,
                                     <<"t","f">> }

\* The synonym sets of the claim.
SaysTrue ==
    { <<"t","r","u","e">>, <<"t">>, <<"y","e","s">>, <<"1">>,
      <<"c","o","r","r","e","c","t">>, <<"r","i","g","h","t">> }

SaysFalse ==
    { <<"f","a","l","s","e">>, <<"f">>, <<"n","o">>, <<"0">>,
      <<"i","n","c","o","r","r","e","c","t">>, <<"w","r","o","n","g">>,
      <<"n","o","t"," ","t","r","u","e">> }

Trimmed(answer) == Lower(Strip(answer))

\* C30: for true_false questions the trimmed lowercased user answer is
\* mapped through the synonym sets and is correct exactly when it maps to
\* the boolean of the correct answer; an answer in neither set, such as
\* 'yep', is graded incorrect whatever the correct answer, and nothing is
\* raised.
C30_TrueFalseBySynonymSets ==
    TrueFalseReturned =>
        LET user == Trimmed(fn.user_answer)
            correct == Trimmed(fn.correct_answer)
        IN  /\ ~fn.result.raised
            /\ user \notin SaysTrue \cup SaysFalse => ~fn.result.is_correct
            /\ correct \in SaysTrue \cup SaysFalse =>
                  fn.result.is_correct =
                      \/ user \in SaysTrue /\ correct \in SaysTrue
                      \/ user \in SaysFalse /\ correct \in SaysFalse

C30_Witness ==
    /\ TrueFalseReturned
    /\ fn.user_answer = <<"y", "e", "p">>
    /\ fn.correct_answer = <<"t", "r", "u", "e">>
    /\ ~fn.result.is_correct

\* The step in which the write of status = ready fails.
ReadyWriteFails == run.pc = "mark_ready" /\ documents' = documents /\ run' # run

\* C32: when the final write of status = ready fails, process_document
\* neither marks the document failed nor retries: the run is over, the
\* document keeps the status it had, and its Chunk records and vector points
\* stay stored.
C32_ReadyWriteFailureLeftAsIs ==
    [][ReadyWriteFails =>
          /\ run'.pc = "done"
          /\ run'.outcome = "ready_write_failed"
          /\ chunks' = chunks
          /\ vectors' = vectors
          /\ StatusOf(run.document_id)' = StatusOf(run.document_id)]_vars

\* The ready write failed: the document is still processing with its chunk
\* records and its vector points stored.
C32_Witness ==
    /\ RunOver
    /\ run.outcome = "ready_write_failed"
    /\ StatusOf(run.document_id) = "processing"
    /\ ChunksOf(run.document_id) # {}
    /\ VectorsOf(run.document_id) # {}

EmbeddingFailed ==
    /\ fn.name = "get_embeddings"
    /\ fn.pc = "returned"
    /\ fn.oracle_failed

IsPrefix(s, t) == Len(s) <= Len(t) /\ SubSeq(t, 1, Len(s)) = s

\* C33: get_embeddings is all-or-nothing: when the oracle raises on a batch,
\* also after earlier batches succeeded, the call returns the empty list,
\* and no batch is sent a second time.
C33_EmbeddingAllOrNothing ==
    /\ EmbeddingFailed => fn.result = <<>>
    /\ fn.name = "get_embeddings" =>
          IsPrefix(Concat(fn.oracle_calls), fn.valid_texts)

\* The third request raised after two batches of 100 had their vectors.
C33_Witness ==
    /\ EmbeddingFailed
    /\ Len(fn.oracle_calls) = 3
    /\ Len(fn.all_embeddings) = 200
    /\ fn.result = <<>>

\* C35: a document with status = ready has chunk_count equal to the number
\* of its Chunk records and to the number of its vector points, and each of
\* its Chunk records carries the id of a vector point of the same document
\* and chunk_index, also after repeated runs on the same document.
C35_ReadyDocumentConsistent ==
    \A d \in Documents :
        StatusOf(d) = "ready" =>
            /\ documents[d].chunk_count = Some(Cardinality(ChunksOf(d)))
            /\ documents[d].chunk_count = Some(Cardinality(VectorsOf(d)))
            /\ \A i \in ChunksOf(d) :
                  /\ chunks[i].embedding_id # None
                  /\ \E v \in VectorsOf(d) :
                        /\ v.id = Val(chunks[i].embedding_id)
                        /\ v.chunk_index = chunks[i].chunk_index

NoSubmitInProgress ==
    /\ response = NoResponse
    /\ \A c \in Calls : Free(c) \/ calls[c].op # "submit_answer"

AnsweredRows(s) == {q \in SessionQuestions(s) : Answered(q)}
CorrectRows(s) == {q \in SessionQuestions(s) : questions[q].is_correct = Some(TRUE)}

\* C36: whenever no submit_answer call is in progress, a session's
\* answered_questions is the number of its questions with user_answer set
\* and its correct_answers the number of its questions graded correct, for
\* every interleaving of submissions and every failure between the question
\* write and the session write.
C36_CountersMatchQuestions ==
    NoSubmitInProgress =>
        \A s \in Sessions :
            /\ quiz_sessions[s].answered_questions = Cardinality(AnsweredRows(s))
            /\ quiz_sessions[s].correct_answers = Cardinality(CorrectRows(s))

\* C37: a session cannot get stuck: whenever every question of a session
\* has user_answer set and no submit_answer is in progress, the session is
\* completed.
C37_AllAnsweredIsCompleted ==
    NoSubmitInProgress =>
        \A s \in Sessions :
            (SessionQuestions(s) # {} /\ AnsweredRows(s) = SessionQuestions(s))
                => quiz_sessions[s].status = "completed"

\* C38: completed is final: once a session is completed its status, its
\* answered_questions, its correct_answers and its completed_at never change
\* again, also when a submit_answer call that read the session before its
\* completion writes the session afterwards.
C38_CompletedIsFrozen ==
    [][\A s \in Sessions :
         quiz_sessions[s].status = "completed" =>
            /\ quiz_sessions'[s].status = "completed"
            /\ quiz_sessions'[s].answered_questions = quiz_sessions[s].answered_questions
            /\ quiz_sessions'[s].correct_answers = quiz_sessions[s].correct_answers
            /\ quiz_sessions'[s].completed_at = quiz_sessions[s].completed_at]_vars

\* Call c is a submit_answer call that takes a step.
SubmitSteps(c) ==
    /\ calls'[c] # calls[c]
    /\ calls[c].op = "submit_answer" \/ calls'[c].op = "submit_answer"

\* The columns submit_answer never writes.
QuestionFrame(q) ==
    [session_id      |-> questions[q].session_id,
     question_number |-> questions[q].question_number,
     question_type   |-> questions[q].question_type,
     correct_answer  |-> questions[q].correct_answer]

SessionFrame(s) ==
    [user_id |-> quiz_sessions[s].user_id,
     total_questions |-> quiz_sessions[s].total_questions]

\* C39: a submit_answer call changes only the four answer fields of the
\* question it names, a question of its own session, and the
\* answered_questions, correct_answers, status and completed_at of that
\* session: every other column, every other question and every other
\* session are left as they were, and no row is added or removed.
C39_SubmitFrame ==
    [][\A c \in Calls :
         SubmitSteps(c) =>
            /\ Len(questions') = Len(questions)
            /\ Len(quiz_sessions') = Len(quiz_sessions)
            /\ \A q \in Questions :
                  /\ QuestionFrame(q)' = QuestionFrame(q)
                  /\ questions'[q] # questions[q] =>
                        /\ q = calls[c].question_id
                        /\ questions[q].session_id = calls[c].session_id
            /\ \A s \in Sessions :
                  /\ SessionFrame(s)' = SessionFrame(s)
                  /\ quiz_sessions'[s] # quiz_sessions[s] => s = calls[c].session_id]_vars

\* A submission to the only question of session 1 succeeded and completed
\* it, and session 2 and its question are as they were created.
C39_Witness ==
    /\ response.op = "submit_answer"
    /\ response.kind = "ok"
    /\ Len(quiz_sessions) = 2
    /\ Len(questions) = 2
    /\ quiz_sessions[1].status = "completed"
    /\ quiz_sessions[2].answered_questions = 0
    /\ quiz_sessions[2].status = "active"
    /\ \E q \in Questions : questions[q].session_id = 2 /\ ~Answered(q)

RetrievalReturned == fn.name = "retrieve_relevant_chunks" /\ fn.pc = "returned"

\* C34: retrieve_relevant_chunks returns the empty list without searching
\* when the query cannot be embedded, returns the empty list and raises
\* nothing when the search raises, and otherwise returns the search result:
\* at most top_k points, all of the document asked for.
C34_RetrievalNeverRaises ==
    RetrievalReturned =>
        /\ ~fn.raised
        /\ ~fn.embedded => (fn.result = <<>> /\ ~fn.searched)
        /\ fn.search_raised => fn.result = <<>>
        /\ (fn.embedded /\ ~fn.search_raised) =>
              /\ fn.searched
              /\ Len(fn.result) = Len(fn.hits)
              /\ Len(fn.hits) <= fn.top_k
              /\ Len(fn.hits) =
                    Min(fn.top_k, Cardinality({v \in vectors :
                                                 v.document_id = fn.document_id}))
              /\ \A i \in 1..Len(fn.hits) :
                    /\ fn.hits[i] \in vectors
                    /\ fn.hits[i].document_id = fn.document_id
                    /\ fn.result[i].chunk_index = fn.hits[i].chunk_index

\* A search for document 1 with top_k = 1 while the index holds two points
\* of document 1 and one of document 2.
C34_Witness ==
    /\ RetrievalReturned
    /\ fn.document_id = 1
    /\ fn.top_k = 1
    /\ Len(fn.result) = 1
    /\ Cardinality({v \in vectors : v.document_id = 1}) = 2
    /\ \E v \in vectors : v.document_id = 2

\* ---------------------------------------------------------------- C31
OwnDocument(call) ==
    /\ DocumentExists(call.document_id)
    /\ documents[call.document_id].user_id = call.user_id

OwnReadyDocument(call) ==
    /\ OwnDocument(call)
    /\ documents[call.document_id].status = "ready"

RouteChecks == fn.pc = "idle" /\ fn'.name \in Routes

RouteInvokes == fn.name \in Routes /\ fn.pc = "invoke" /\ fn'.invoked

\* C31: a route that creates a session, generates a quiz or searches goes on
\* to its service only for a document that is the caller's and is ready when
\* the route selects it.  When the select answers, a missing or foreign
\* document gives 404 and a pending, processing or failed one gives 400 with
\* its status; either way the request ends there, no session is stored and
\* the generator or the retrieval is not called.  A session is stored, and a
\* service is called, only in the step of a request that passed the check,
\* with the document still the caller's and ready.
C31_RoutesRequireOwnReadyDocument ==
    [][ /\ RouteChecks =>
            /\ quiz_sessions' = quiz_sessions
            /\ ~fn'.invoked
            /\ fn'.pc = "invoke" => OwnReadyDocument(fn')
            /\ fn'.status_code # 500 /\ ~OwnDocument(fn') =>
                   /\ fn'.pc = "returned"
                   /\ fn'.status_code = 404
            /\ fn'.status_code # 500 /\ OwnDocument(fn')
                   /\ ~OwnReadyDocument(fn') =>
                   /\ fn'.pc = "returned"
                   /\ fn'.status_code = 400
                   /\ fn'.detail = documents[fn'.document_id].status
        /\ fn'.name \in Routes /\ fn'.invoked /\ fn # fn' =>
            RouteInvokes /\ OwnReadyDocument(fn)
        /\ quiz_sessions' # quiz_sessions =>
            /\ fn.name = "create_quiz_session"
            /\ RouteInvokes
            /\ OwnReadyDocument(fn)
        /\ fn.name \in Routes /\ fn.status_code \in {400, 404} =>
            fn.pc = "returned" /\ ~fn.invoked
      ]_vars

\* A request for a session by someone else than the owner of a ready
\* document has ended with 404, nothing called and no session stored.
C31_Witness ==
    /\ fn.name = "create_quiz_session"
    /\ fn.pc = "returned"
    /\ DocumentExists(fn.document_id)
    /\ documents[fn.document_id].status = "ready"
    /\ documents[fn.document_id].user_id # fn.user_id
    /\ fn.status_code = 404
    /\ ~fn.invoked
    /\ quiz_sessions = <<>>

====
